---- MODULE Spec2Model ----
(***************************************************************************)
(* A model of the AlphaVantage helper av_client.py: the numeric string     *)
(* converter, the trailing-twelve-month (TTM) builder, the 5-year CAGR,    *)
(* and the fetch functions with their on-disk JSON cache.                  *)
(*                                                                         *)
(* JSON values are tagged records. A Python float is held as an integer    *)
(* number of hundredths (12.5 is [t |-> "float", f |-> 1250]); the strings *)
(* the model feeds carry at most two fractional digits, so the sums are    *)
(* exact. Python's None and JSON's null are the same value JNull.          *)
(***************************************************************************)
EXTENDS Integers, Sequences, FiniteSets, TLC

VARIABLES
    fs,        \* the cache directory: file name -> content
    dir,       \* the cache directory itself: "missing", "present", "readonly"
               \* (it exists, writes into it fail) or "blocked" (mkdir fails)
    envKey,    \* the AV_KEY environment variable (JNull when unset)
    version,   \* which revision of its data the provider currently serves
    cur,       \* the call that ended last (what it was, what it returned)
    prev,      \* the call before it
    calls,     \* number of calls made so far
    stmt,      \* pure-function specifications: the statement under test
    field,     \* pure-function specifications: the value_key under test
    out,       \* pure-function specifications: the function's result
    files,          \* the spreadsheets of industry data: file name -> table
    shared_list,  \* the caller's list object handed to the topic accessors
    page,           \* what the dashboard rendered for the submitted ticker
    procs           \* concurrent fetches: process -> its position and locals

vars == <<fs, dir, envKey, version, cur, prev, calls, stmt, field, out,
          files, shared_list, page, procs>>

----------------------------------------------------------------------------
(* JSON / Python values *)

JNull == [t |-> "null"]
JStr(s) == [t |-> "str", s |-> s]
JInt(n) == [t |-> "int", i |-> n]
JFloat(h) == [t |-> "float", f |-> h]
JList(q) == [t |-> "list", items |-> q]
JObj(kv) == [t |-> "obj", kv |-> kv]

\* A string given by its characters.
JText(q) == [t |-> "text", q |-> q]

\* An exception raised where a value was being computed.
PyRaise(exc) == [t |-> "raise", exc |-> exc]

EmptyDict == <<>>

\* Python truthiness (`not stmt`, `x or []`, `if not key`).
Truthy(x) ==
    CASE x.t = "null" -> FALSE
      [] x.t = "str" -> x.s # ""
      [] x.t = "int" -> x.i # 0
      [] x.t = "float" -> x.f # 0
      [] x.t = "list" -> x.items # <<>>
      [] x.t = "obj" -> DOMAIN x.kv # {}

\* dict.get(k): the value, or None when the key is absent.
Get(d, k) == IF k \in DOMAIN d THEN d[k] ELSE JNull

\* A number's value in hundredths, whatever its type.
Hundredths(v) == IF v.t = "int" THEN 100 * v.i ELSE v.f

Min(a, b) == IF a <= b THEN a ELSE b

\* A local variable: v is evaluated once and Body applied to its value.
Bind(v, Body(_)) == CHOOSE y \in {Body(x) : x \in {v}} : TRUE

----------------------------------------------------------------------------
(* Strings: a string literal's characters, and the str methods the code uses *)

Chars(s) ==
    CASE s = "" -> <<>>
      [] s = "  " -> <<" ", " ">>
      [] s = " 7 " -> <<" ", "7", " ">>
      [] s = "0" -> <<"0">>
      [] s = "10" -> <<"1", "0">>
      [] s = "20" -> <<"2", "0">>
      [] s = "30" -> <<"3", "0">>
      [] s = "40" -> <<"4", "0">>
      [] s = "100" -> <<"1", "0", "0">>
      [] s = "121" -> <<"1", "2", "1">>
      [] s = "-5" -> <<"-", "5">>
      [] s = "1,234" -> <<"1", ",", "2", "3", "4">>
      [] s = "(500)" -> <<"(", "5", "0", "0", ")">>
      [] s = "12.5" -> <<"1", "2", ".", "5">>
      [] s = "7.25" -> <<"7", ".", "2", "5">>
      [] s = "(1.5)" -> <<"(", "1", ".", "5", ")">>
      [] s = "5." -> <<"5", ".">>
      [] s = "." -> <<".">>
      [] s = "None" -> <<"N", "o", "n", "e">>
      [] s = "none" -> <<"n", "o", "n", "e">>
      [] s = "NONE" -> <<"N", "O", "N", "E">>
      [] s = "abc" -> <<"a", "b", "c">>
      [] s = "-" -> <<"-">>
      [] s = "USD" -> <<"U", "S", "D">>
      [] s = "EUR" -> <<"E", "U", "R">>
      [] s = "d0" -> <<"d", "0">>
      [] s = "d1" -> <<"d", "1">>
      [] s = "d2" -> <<"d", "2">>
      [] s = "d3" -> <<"d", "3">>
      [] s = "d4" -> <<"d", "4">>
      [] s = "d5" -> <<"d", "5">>
      [] s = "rate limit" -> <<"r", "a", "t", "e", " ", "l", "i", "m", "i", "t">>
      [] s = "1.2" -> <<"1", ".", "2">>
      [] s = "Crocs" -> <<"C", "r", "o", "c", "s">>
      [] s = "ab" -> <<"a", "b">>
      [] s = "AB" -> <<"A", "B">>
      [] s = "cd" -> <<"c", "d">>
      [] s = "CD" -> <<"C", "D">>
      [] s = " cd " -> <<" ", "c", "d", " ">>
      [] s = "ex" -> <<"e", "x">>
      [] s = "ke" -> <<"k", "e">>
      [] s = "xx" -> <<"x", "x">>
      [] s = "k" -> <<"k">>
      [] s = "e" -> <<"e">>
      [] s = "overview" -> <<"o", "v", "e", "r", "v", "i", "e", "w">>
      [] s = "income_statement" -> <<"i", "n", "c", "o", "m", "e", "_", "s", "t", "a", "t", "e", "m", "e", "n", "t">>
      [] s = "balance_sheet" -> <<"b", "a", "l", "a", "n", "c", "e", "_", "s", "h", "e", "e", "t">>
      [] s = "cash_flow" -> <<"c", "a", "s", "h", "_", "f", "l", "o", "w">>
      [] s = "_" -> <<"_">>
      [] s = ".json" -> <<".", "j", "s", "o", "n">>
      [] s = "date" -> <<"d", "a", "t", "e">>
      [] s = "quarter" -> <<"q", "u", "a", "r", "t", "e", "r">>
      [] s = "Symbol" -> <<"S", "y", "m", "b", "o", "l">>
      [] s = "Name" -> <<"N", "a", "m", "e">>
      [] s = "Beta" -> <<"B", "e", "t", "a">>
      [] s = "PERatio" -> <<"P", "E", "R", "a", "t", "i", "o">>
      [] s = "DividendDate" -> <<"D", "i", "v", "i", "d", "e", "n", "d", "D", "a", "t", "e">>
      [] s = "LatestQuarter" -> <<"L", "a", "t", "e", "s", "t", "Q", "u", "a", "r", "t", "e", "r">>
      [] s = "ReturnOnAssetsTTM" -> <<"R", "e", "t", "u", "r", "n", "O", "n", "A", "s", "s", "e", "t", "s", "T", "T", "M">>
      [] s = "ReturnOnEquityTTM" -> <<"R", "e", "t", "u", "r", "n", "O", "n", "E", "q", "u", "i", "t", "y", "T", "T", "M">>
      [] s = "Information" -> <<"I", "n", "f", "o", "r", "m", "a", "t", "i", "o", "n">>
      [] s = "RevCAGR5y" -> <<"R", "e", "v", "C", "A", "G", "R", "5", "y">>

IsSpace(c) == c = " "

RECURSIVE LStrip(_)
LStrip(s) == IF s # <<>> /\ IsSpace(Head(s)) THEN LStrip(Tail(s)) ELSE s

RECURSIVE RStrip(_)
RStrip(s) ==
    IF s # <<>> /\ IsSpace(s[Len(s)]) THEN RStrip(SubSeq(s, 1, Len(s) - 1)) ELSE s

\* str.strip()
Strip(s) == RStrip(LStrip(s))

LowerChar(c) ==
    CASE c = "A" -> "a" [] c = "B" -> "b" [] c = "C" -> "c" [] c = "D" -> "d"
      [] c = "E" -> "e" [] c = "G" -> "g" [] c = "I" -> "i" [] c = "L" -> "l"
      [] c = "M" -> "m" [] c = "N" -> "n" [] c = "O" -> "o" [] c = "P" -> "p"
      [] c = "Q" -> "q" [] c = "R" -> "r" [] c = "S" -> "s" [] c = "T" -> "t"
      [] c = "U" -> "u" [] c = "X" -> "x"
      [] OTHER -> c

UpperChar(c) ==
    CASE c = "a" -> "A" [] c = "b" -> "B" [] c = "c" -> "C" [] c = "d" -> "D"
      [] c = "e" -> "E" [] c = "k" -> "K" [] c = "x" -> "X"
      [] OTHER -> c

\* str.lower() and str.upper()
Lower(s) == [i \in 1..Len(s) |-> LowerChar(s[i])]
Upper(s) == [i \in 1..Len(s) |-> UpperChar(s[i])]

\* s.replace(c, "")
RemoveChar(s, c) == SelectSeq(s, LAMBDA x : x # c)

StartsWith(s, c) == s # <<>> /\ s[1] = c
EndsWith(s, c) == s # <<>> /\ s[Len(s)] = c

\* `sub in s`
Contains(s, sub) ==
    \E i \in 1..(Len(s) - Len(sub) + 1) : SubSeq(s, i, i + Len(sub) - 1) = sub

\* s.endswith(sub)
EndsWithStr(s, sub) ==
    Len(s) >= Len(sub) /\ SubSeq(s, Len(s) - Len(sub) + 1, Len(s)) = sub

Digits == {"0", "1", "2", "3", "4", "5", "6", "7", "8", "9"}

DigitVal(c) ==
    CASE c = "0" -> 0 [] c = "1" -> 1 [] c = "2" -> 2 [] c = "3" -> 3 [] c = "4" -> 4
      [] c = "5" -> 5 [] c = "6" -> 6 [] c = "7" -> 7 [] c = "8" -> 8 [] c = "9" -> 9

DigitChar(d) ==
    CASE d = 0 -> "0" [] d = 1 -> "1" [] d = 2 -> "2" [] d = 3 -> "3" [] d = 4 -> "4"
      [] d = 5 -> "5" [] d = 6 -> "6" [] d = 7 -> "7" [] d = 8 -> "8" [] d = 9 -> "9"

AllDigits(s) == \A i \in 1..Len(s) : s[i] \in Digits

RECURSIVE DigitsVal(_)
DigitsVal(s) ==
    IF s = <<>> THEN 0
    ELSE 10 * DigitsVal(SubSeq(s, 1, Len(s) - 1)) + DigitVal(s[Len(s)])

RECURSIVE NatText(_)
NatText(n) ==
    IF n < 10 THEN <<DigitChar(n)>>
    ELSE Append(NatText(n \div 10), DigitChar(n % 10))

\* str(n) and json.dumps(n) of an int.
IntText(n) == IF n < 0 THEN <<"-">> \o NatText(-n) ELSE NatText(n)

\* repr(x) of a float: always with a fractional part, shortest digits.
FloatText(h) ==
    LET a == IF h < 0 THEN -h ELSE h
        r == a % 100
        frac == IF r % 10 = 0 THEN <<DigitChar(r \div 10)>>
                ELSE <<DigitChar(r \div 10), DigitChar(r % 10)>>
    IN (IF h < 0 THEN <<"-">> ELSE <<>>) \o NatText(a \div 100) \o <<".">> \o frac

\* The sign and the unsigned body of a numeric literal.
SignOf(u) == IF u # <<>> /\ Head(u) = "-" THEN -1 ELSE 1
Unsigned(u) == IF u # <<>> /\ Head(u) \in {"+", "-"} THEN Tail(u) ELSE u

\* int(s): surrounding whitespace, an optional sign, then digits only.
IntOk(s) == LET b == Unsigned(Strip(s)) IN b # <<>> /\ AllDigits(b)
IntVal(s) == SignOf(Strip(s)) * DigitsVal(Unsigned(Strip(s)))

DotPos(b) ==
    IF \E i \in 1..Len(b) : b[i] = "."
    THEN CHOOSE i \in 1..Len(b) : b[i] = "." /\ \A j \in 1..(i - 1) : b[j] # "."
    ELSE 0

FracHundredths(fp) ==
    IF fp = <<>> THEN 0
    ELSE IF Len(fp) = 1 THEN 10 * DigitVal(fp[1])
    ELSE 10 * DigitVal(fp[1]) + DigitVal(fp[2])

\* float(s) on decimal literals: digits, at most one point, digits on at
\* least one side of it. (Exponents, inf and nan are outside the alphabet.)
FloatOk(s) ==
    LET b == Unsigned(Strip(s))
        p == DotPos(b)
    IN IF p = 0 THEN b # <<>> /\ AllDigits(b)
       ELSE LET ip == SubSeq(b, 1, p - 1)
                fp == SubSeq(b, p + 1, Len(b))
            IN AllDigits(ip) /\ AllDigits(fp) /\ (ip # <<>> \/ fp # <<>>)

FloatVal(s) ==
    LET b == Unsigned(Strip(s))
        p == DotPos(b)
    IN IF p = 0 THEN SignOf(Strip(s)) * 100 * DigitsVal(b)
       ELSE SignOf(Strip(s))
            * (100 * DigitsVal(SubSeq(b, 1, p - 1)) + FracHundredths(SubSeq(b, p + 1, Len(b))))

\* str(x) for the scalar values a report field can hold.
PyStr(x) ==
    CASE x.t = "str" -> Chars(x.s)
      [] x.t = "text" -> x.q
      [] x.t = "int" -> IntText(x.i)
      [] x.t = "float" -> FloatText(x.f)

----------------------------------------------------------------------------
(* _convert_num *)

\* int(s) and float(s): the number, or the ValueError they raise.
PyInt(s) == IF IntOk(s) THEN JInt(IntVal(s)) ELSE PyRaise("ValueError")
PyFloat(s) == IF FloatOk(s) THEN JFloat(FloatVal(s)) ELSE PyRaise("ValueError")

\* lines 58-61: the body of the outer try
FirstParse(s) == IF Contains(s, <<".">>) THEN PyFloat(s) ELSE PyInt(s)

\* The outer try without the handler of lines 64-66.
ParseNumUncaught(s) ==
    IF FirstParse(s).t # "raise" THEN FirstParse(s) ELSE PyFloat(s)
\* The try/except of lines 58-66 on the cleaned string.
ParseNum(s) ==
    IF FirstParse(s).t # "raise" THEN FirstParse(s)
    ELSE IF PyFloat(s).t # "raise" THEN PyFloat(s)
    ELSE JNull

UnParen(s) ==
    IF StartsWith(s, "(") /\ EndsWith(s, ")")
    THEN <<"-">> \o SubSeq(s, 2, Len(s) - 1)
    ELSE s

_convert_num(x) ==
    IF x = JNull THEN JNull
    ELSE IF x.t \in {"list", "obj"} THEN JNull  \* str() of these starts with [ or {
    ELSE LET s == Strip(PyStr(x))
         IN IF s = <<>> \/ Lower(s) = <<"n", "o", "n", "e">> THEN JNull
            ELSE ParseNum(UnParen(RemoveChar(s, ",")))

----------------------------------------------------------------------------
(* build_ttm_from_statement *)

\* Mutant of Latest4: the slice takes five reports.
LatestFive(qreports) == SubSeq(qreports, 1, Min(5, Len(qreports)))

\* line 79: qreports[:4]
Latest4(qreports) == SubSeq(qreports, 1, Min(4, Len(qreports)))

\* lines 82-84: every key present in one of the reports used
KeysOf(latest4) == UNION {DOMAIN latest4[i].kv : i \in 1..Len(latest4)}

\* line 91
ValsOf(latest4, k) == [i \in 1..Len(latest4) |-> _convert_num(Get(latest4[i].kv, k))]

\* lines 95-102: the running total over the non-null values, in hundredths
RECURSIVE TotalOf(_, _)
TotalOf(vals, n) ==
    IF n = 0 THEN 0
    ELSE TotalOf(vals, n - 1) + (IF vals[n] = JNull THEN 0 ELSE Hundredths(vals[n]))

\* Mutant of SumField: one null value makes the whole field null.
SumFieldNullOnAny(latest4, k) ==
    LET vals == ValsOf(latest4, k)
        any_float == \E i \in 1..Len(vals) : vals[i].t = "float"
    IN IF \E i \in 1..Len(vals) : vals[i] = JNull THEN JNull
       ELSE IF any_float THEN JFloat(TotalOf(vals, Len(vals)))
       ELSE JInt(TotalOf(vals, Len(vals)) \div 100)

\* Mutant of SumField: any_float is never set, the total is always int(total).
SumFieldAlwaysInt(latest4, k) ==
    LET vals == ValsOf(latest4, k)
    IN IF \A i \in 1..Len(vals) : vals[i] = JNull THEN JNull
       ELSE JInt(TotalOf(vals, Len(vals)) \div 100)

\* lines 91-103: one summed field
SumField(latest4, k) ==
    LET vals == ValsOf(latest4, k)
        any_float == \E i \in 1..Len(vals) : vals[i].t = "float"
        total == TotalOf(vals, Len(vals))
    IN IF \A i \in 1..Len(vals) : vals[i] = JNull THEN JNull
       ELSE IF any_float THEN JFloat(total)
       ELSE JInt(total \div 100)

HouseKeeping == {"fiscalDateEnding", "reportedCurrency"}

\* Mutant of TtmDict: the housekeeping fields are summed like the others.
TtmDictSummingAll(latest4) ==
    [k \in KeysOf(latest4) \cup {"_ttm_from_quarters"} |->
        IF k = "_ttm_from_quarters"
        THEN JList([i \in 1..Len(latest4) |-> Get(latest4[i].kv, "fiscalDateEnding")])
        ELSE SumField(latest4, k)]

\* lines 86-106: the TTM dict of a non-empty report list
TtmDict(latest4) ==
    [k \in KeysOf(latest4) \cup {"_ttm_from_quarters"} |->
        IF k = "_ttm_from_quarters"
        THEN JList([i \in 1..Len(latest4) |-> Get(latest4[i].kv, "fiscalDateEnding")])
        ELSE IF k \in HouseKeeping THEN Get(latest4[1].kv, k)
        ELSE SumField(latest4, k)]

\* line 76: stmt.get("quarterlyReports") or []
ReportsOf(st, key) ==
    LET v == Get(st.kv, key) IN IF Truthy(v) THEN v.items ELSE <<>>

\* Mutant of build_ttm_from_statement: the empty-list guard of lines 77-78 is gone.
build_ttm_unguarded(st) ==
    IF ~Truthy(st) THEN JNull
    ELSE JObj(TtmDict(Latest4(ReportsOf(st, "quarterlyReports"))))

build_ttm_from_statement(st) ==
    IF ~Truthy(st) THEN JNull
    ELSE LET qreports == ReportsOf(st, "quarterlyReports")
         IN IF Len(qreports) = 0 THEN JNull
            ELSE JObj(TtmDict(Latest4(qreports)))

----------------------------------------------------------------------------
(* compute_5yr_cagr_from_annuals *)

\* Exact naturals beyond 32 bits: little-endian limbs, base 10000.
RECURSIVE BigMulCarry(_, _, _)
BigMulCarry(x, m, carry) ==
    IF x = <<>>
    THEN IF carry = 0 THEN <<>> ELSE <<carry % 10000>> \o BigMulCarry(<<>>, m, carry \div 10000)
    ELSE LET p == Head(x) * m + carry
         IN <<p % 10000>> \o BigMulCarry(Tail(x), m, p \div 10000)

BigMul(x, m) == BigMulCarry(x, m, 0)

BigOf(n) == BigMulCarry(<<>>, 1, n)

RECURSIVE BigPow(_, _, _)
BigPow(x, m, e) == IF e = 0 THEN x ELSE BigPow(BigMul(x, m), m, e - 1)

\* x <= y, for limb sequences without leading zero limbs
RECURSIVE BigLeq(_, _)
BigLeq(x, y) ==
    IF Len(x) # Len(y) THEN Len(x) < Len(y)
    ELSE IF x = <<>> THEN TRUE
    ELSE IF x[Len(x)] # y[Len(y)] THEN x[Len(x)] < y[Len(y)]
    ELSE BigLeq(SubSeq(x, 1, Len(x) - 1), SubSeq(y, 1, Len(y) - 1))

\* ((200 + 2r + 1) / 200) ** 5 <= latest / earlier: the growth rate is at
\* least r + 0.5 hundredths.
AtLeastHalfAbove(latest, earlier, r) ==
    BigLeq(BigPow(BigOf(earlier), 201 + 2 * r, 5), BigPow(BigOf(latest), 200, 5))

\* lines 137-138: round((latest / earlier) ** (1 / 5) - 1, 2), in hundredths:
\* the least r whose upper half-step the growth rate does not reach. The rate
\* is below latest / earlier, which bounds the search.
RoundedCagr(latest, earlier) ==
    CHOOSE r \in -100..(100 * latest) \div earlier + 1 :
        /\ ~AtLeastHalfAbove(latest, earlier, r)
        /\ (r = -100 \/ AtLeastHalfAbove(latest, earlier, r - 1))

\* lines 126-127: the two reports the function reads
LatestIdx == 1
\* Mutant of EarlierIdx: off by one, the report four years back.
EarlierIdxOff == 6 - 1
EarlierIdx == 6

compute_5yr_cagr_from_annuals(st, value_key) ==
    IF ~Truthy(st) THEN JNull
    ELSE LET areports == ReportsOf(st, "annualReports")
         IN IF Len(areports) < EarlierIdx THEN JNull
            ELSE LET v_latest == _convert_num(Get(areports[LatestIdx].kv, value_key))
                     v_earlier == _convert_num(Get(areports[EarlierIdx].kv, value_key))
                 IN IF v_latest = JNull \/ v_earlier = JNull THEN JNull
                    ELSE IF Hundredths(v_earlier) <= 0 \/ Hundredths(v_latest) <= 0 THEN JNull
                    ELSE JFloat(RoundedCagr(Hundredths(v_latest), Hundredths(v_earlier)))

----------------------------------------------------------------------------
(* Pure-function specifications: build_ttm_from_statement and              *)
(* compute_5yr_cagr_from_annuals applied to statements drawn from bounded  *)
(* sets of provider payloads.                                              *)

MaxQuarters == 5
MaxAnnuals == 7

Pending == [t |-> "pending"]
Absent == [t |-> "absent"]

\* A field of a report: the key is left out when the value is Absent.
FieldIf(k, v) == IF v = Absent THEN EmptyDict ELSE k :> v

Dates == <<"d0", "d1", "d2", "d3", "d4", "d5">>
DateOf(i) == Dates[((i - 1) % 6) + 1]

\* netIncome by report index: the first four are the quarters 10, 20, 30, 40.
NetIncomes == <<"10", "20", "30", "40", "100", "7.25">>
NetIncomeOf(i) == NetIncomes[((i - 1) % 6) + 1]

\* The values a revenue field takes in the quarterly statements.
QuarterValues ==
    {Absent, JStr(""), JStr("None"), JStr("abc"), JStr("10"), JStr("12.5")}

\* Which reports carry the housekeeping fields.
DateModes == {"all", "none", "notFirst"}

QuarterReport(i, rev, mode) ==
    LET has == mode = "all" \/ (mode = "notFirst" /\ i > 1)
    IN JObj(FieldIf("totalRevenue", rev)
            @@ ("netIncome" :> JStr(NetIncomeOf(i)))
            @@ FieldIf("fiscalDateEnding", IF has THEN JStr(DateOf(i)) ELSE Absent)
            @@ FieldIf("reportedCurrency",
                       IF has THEN JStr(IF i = 1 THEN "USD" ELSE "EUR") ELSE Absent))

ErrorPayload == JObj([Information |-> JStr("rate limit")])

RECURSIVE QuarterReports(_, _, _)
QuarterReports(revs, mode, n) ==
    IF n = 0 THEN <<>>
    ELSE Append(QuarterReports(revs, mode, n - 1), QuarterReport(n, revs[n], mode))

QuarterlyStatement(n, revs, mode) ==
    JObj([quarterlyReports |-> JList(QuarterReports(revs, mode, n))])

\* Payloads without usable quarterly reports.
NoQuarters ==
    {JNull, JObj(EmptyDict), ErrorPayload, JObj([annualReports |-> JList(<<>>)]),
     JObj([quarterlyReports |-> JNull])}

\* Values of the two reports compute_5yr_cagr_from_annuals reads, and of the rest.
EndValues ==
    {Absent, JStr(""), JStr("None"), JStr("abc"), JStr("0"), JStr("-5"),
     JStr("100"), JStr("121"), JStr("12.5")}
FillValues == {Absent, JStr("abc"), JStr("30")}

AnnualReport(i, v) ==
    JObj(FieldIf("totalRevenue", v)
         @@ ("netIncome" :> JStr(NetIncomeOf(i)))
         @@ ("fiscalDateEnding" :> JStr(DateOf(i))))

RECURSIVE AnnualReports(_, _, _, _)
AnnualReports(a, b, c, n) ==
    IF n = 0 THEN <<>>
    ELSE Append(AnnualReports(a, b, c, n - 1),
                AnnualReport(n, IF n = LatestIdx THEN a
                                ELSE IF n = EarlierIdx THEN b ELSE c))

AnnualStatement(n, a, b, c) ==
    JObj([annualReports |-> JList(AnnualReports(a, b, c, n))])

\* Payloads without usable annual reports.
NoAnnuals ==
    {JNull, JObj(EmptyDict), ErrorPayload, JObj([quarterlyReports |-> JList(<<>>)]),
     JObj([annualReports |-> JNull])}

ValueKeys == {"totalRevenue", "netIncome"}

Idle == [fn |-> "none"]

\* No industry spreadsheet, no dashboard run and no concurrent fetch is in play.
DashboardIdle ==
    files = <<>> /\ shared_list = JNull /\ page = [kind |-> "none"] /\ procs = <<>>

CacheIdle ==
    /\ fs = <<>> /\ dir = "missing" /\ envKey = JNull /\ version = 0
    /\ cur = Idle /\ prev = Idle /\ calls = 0
    /\ DashboardIdle

InitTTM ==
    /\ CacheIdle
    /\ \/ stmt \in NoQuarters
       \/ \E n \in 0..MaxQuarters, mode \in DateModes :
             \E revs \in [1..n -> QuarterValues] : stmt = QuarterlyStatement(n, revs, mode)
    /\ field = ""
    /\ out = Pending

BuildTTM ==
    /\ out = Pending
    /\ out' = build_ttm_from_statement(stmt)
    /\ UNCHANGED <<fs, dir, envKey, version, cur, prev, calls, stmt, field,
                   files, shared_list, page, procs>>

SpecTTM == InitTTM /\ [][BuildTTM]_vars

InitCagr ==
    /\ CacheIdle
    /\ \/ stmt \in NoAnnuals
       \/ \E n \in 0..MaxAnnuals, a \in EndValues, b \in EndValues, c \in FillValues :
             stmt = AnnualStatement(n, a, b, c)
    /\ field \in ValueKeys
    /\ out = Pending

ComputeCagr ==
    /\ out = Pending
    /\ out' = compute_5yr_cagr_from_annuals(stmt, field)
    /\ UNCHANGED <<fs, dir, envKey, version, cur, prev, calls, stmt, field,
                   files, shared_list, page, procs>>

SpecCagr == InitCagr /\ [][ComputeCagr]_vars

\* The strings handed to _convert_num: the literals of the provider's
\* payloads and every string of up to MaxText characters of ConvertAlphabet.
MaxText == 3

ConvertAlphabet == {"5", "0", ",", "(", ")", ".", " ", "-"}

NumLiterals ==
    {"", "  ", " 7 ", "0", "100", "-5", "1,234", "(500)", "12.5", "7.25", "(1.5)", "5.", ".",
     "None", "NONE", "none", "abc", "-", "USD"}

Texts(n) == UNION {[1..k -> ConvertAlphabet] : k \in 0..n}

InitConvert ==
    /\ CacheIdle
    /\ \/ stmt = JNull
       \/ \E s \in NumLiterals : stmt = JStr(s)
       \/ \E q \in Texts(MaxText) : stmt = JText(q)
       \/ \E n \in {-12, 0, 7} : stmt = JInt(n)
       \/ \E h \in {-150, 0, 1250} : stmt = JFloat(h)
    /\ field = ""
    /\ out = Pending

ConvertNum ==
    /\ out = Pending
    /\ out' = _convert_num(stmt)
    /\ UNCHANGED <<fs, dir, envKey, version, cur, prev, calls, stmt, field,
                   files, shared_list, page, procs>>

SpecConvert == InitConvert /\ [][ConvertNum]_vars

----------------------------------------------------------------------------
(* The cache files: json.dumps / json.loads and the file helpers.          *)
(* A file holds JSON text: numbers are kept as their digits, strings as    *)
(* quoted literals. A file that is not JSON is Garbage.                    *)

RECURSIVE Dumps(_)
Dumps(v) ==
    CASE v.t = "null" -> [j |-> "null"]
      [] v.t = "str" -> [j |-> "string", s |-> v.s]
      [] v.t = "int" -> [j |-> "number", text |-> IntText(v.i)]
      [] v.t = "float" -> [j |-> "number", text |-> FloatText(v.f)]
      [] v.t = "list" ->
            [j |-> "array", items |-> [i \in 1..Len(v.items) |-> Dumps(v.items[i])]]
      [] v.t = "obj" ->
            [j |-> "object", kv |-> [k \in DOMAIN v.kv |-> Dumps(v.kv[k])]]

\* A JSON number with a fraction part decodes to a float, any other to an int.
RECURSIVE Loads(_)
Loads(d) ==
    CASE d.j = "null" -> JNull
      [] d.j = "string" -> JStr(d.s)
      [] d.j = "number" ->
            IF Contains(d.text, <<".">>) THEN JFloat(FloatVal(d.text))
            ELSE JInt(IntVal(d.text))
      [] d.j = "array" -> JList([i \in 1..Len(d.items) |-> Loads(d.items[i])])
      [] d.j = "object" -> JObj([k \in DOMAIN d.kv |-> Loads(d.kv[k])])

Garbage == [kind |-> "garbage"]
JsonFile(data) == Bind(data, LAMBDA d : [kind |-> "json", doc |-> Dumps(d)])

DataTypes == {"overview", "income_statement", "balance_sheet", "cash_flow"}

_get_cache_file(symbol, data_type) ==
    symbol \o Chars("_") \o Chars(data_type) \o Chars(".json")

\* A cache that never answers.
_load_never(F, symbol, data_type) == JNull

\* A load that hands back an empty record for a file that does not parse.
_load_unparsed(F, symbol, data_type) ==
    Bind(_get_cache_file(symbol, data_type),
         LAMBDA p : IF p \in DOMAIN F
                    THEN IF F[p].kind = "json" THEN Loads(F[p].doc) ELSE JObj(EmptyDict)
                    ELSE JNull)

\* None when the file is missing or does not parse.
_load_from_cache(F, symbol, data_type) ==
    Bind(_get_cache_file(symbol, data_type),
         LAMBDA p : IF p \in DOMAIN F
                    THEN IF F[p].kind = "json" THEN Loads(F[p].doc) ELSE JNull
                    ELSE JNull)

\* A save that keeps a payload carrying the provider's "Information" notice
\* out of the cache.
_save_validated(F, symbol, data_type, data, wok) ==
    IF wok /\ "Information" \notin DOMAIN data.kv
    THEN (_get_cache_file(symbol, data_type) :> JsonFile(data)) @@ F
    ELSE F

\* write_text either replaces the file or raises (wok = FALSE) and leaves it.
\* The callers wrap the call in try/except: the result carries the outcome.
_save_to_cache(F, symbol, data_type, data, wok) ==
    IF wok
    THEN (_get_cache_file(symbol, data_type) :> JsonFile(data)) @@ F
    ELSE F

\* _get_cache_dir: mkdir(parents=True, exist_ok=True) raises when blocked.
MkdirRaises(D) == D = "blocked"
_get_cache_dir(D) == IF D = "missing" THEN "present" ELSE D

\* open(path, "w") raises in a directory that cannot be written to.
Writable(D) == D # "readonly"

----------------------------------------------------------------------------
(* The provider: what GET query?function=F&symbol=S answers, by revision.  *)

MaxVersion == 1
MaxCalls == 2
MaxCorrupt == 1

Tickers == {"ab", "CD"}
SymbolOf(ticker) == Upper(Chars(ticker))
SymAB == <<"A", "B">>

Seq5(a, b, c, d, e) == <<JStr(a), JStr(b), JStr(c), JStr(d), JStr(e)>>

IncomePayload(symbol, v) ==
    IF v % 3 = 1 THEN ErrorPayload
    ELSE IF symbol = SymAB
    THEN JObj([quarterlyReports |->
                  JList(QuarterReports(
                      IF v % 3 = 0 THEN Seq5("10", "12.5", "None", "10", "10")
                      ELSE Seq5("10", "10", "10", "10", "10"), "all", 5)),
               annualReports |->
                  JList(IF v % 3 = 0
                        THEN AnnualReports(JStr("121"), JStr("100"), JStr("30"), 6)
                        ELSE AnnualReports(JStr("100"), JStr("121"), JStr("30"), 7))])
    ELSE JObj([quarterlyReports |->
                  JList(QuarterReports(<<JStr("1,234"), JStr("(500)")>>, "all", 2))])

BalancePayload(symbol, v) ==
    IF v % 3 = 1 THEN ErrorPayload
    ELSE JObj([quarterlyReports |->
                  JList(<<JObj([fiscalDateEnding |-> JStr("d0"),
                                inventory |-> JStr(IF symbol = SymAB THEN "1,234" ELSE "20"),
                                totalShareholderEquity |-> JStr("(500)")])>>)])

CashFlowPayload(symbol, v) ==
    IF v % 3 = 1 THEN JObj(EmptyDict)
    ELSE JObj([quarterlyReports |->
                  JList(<<JObj([fiscalDateEnding |-> JStr("d0"),
                                operatingCashflow |-> JStr(IF symbol = SymAB THEN "40" ELSE "30")])>>)])

OverviewPayload(symbol, v) ==
    IF v % 3 = 1 THEN ErrorPayload
    ELSE JObj([Symbol |-> JStr(IF symbol = SymAB THEN "AB" ELSE "CD"),
               Name |-> JStr("Crocs"),
               Beta |-> JStr(IF v % 3 # 0 THEN "-"
                             ELSE IF symbol = SymAB THEN "1.2" ELSE "None"),
               PERatio |-> JStr("None"),
               ReturnOnEquityTTM |-> JStr("12.5"),
               LatestQuarter |-> JStr("10")])

Provider(func, symbol, v) ==
    CASE func = "OVERVIEW" -> OverviewPayload(symbol, v)
      [] func = "INCOME_STATEMENT" -> IncomePayload(symbol, v)
      [] func = "BALANCE_SHEET" -> BalancePayload(symbol, v)
      [] func = "CASH_FLOW" -> CashFlowPayload(symbol, v)

\* The URL of lines 160, 207 and 264.
Url(func, symbol, key) == [function |-> func, symbol |-> symbol, apikey |-> key.s]

----------------------------------------------------------------------------
(* fetch_company_overview *)

\* lines 149-150: av_key or os.environ.get("AV_KEY")
KeyOf(av_key) == IF Truthy(av_key) THEN av_key ELSE envKey

\* A check of the key against None alone.
MissingKeyIsNone(key) == key = JNull

\* lines 150 and 246: `if not key`
MissingKey(key) == ~Truthy(key)

keep_as_str ==
    {"Address", "Description", "AssetType", "Country", "Currency", "Exchange",
     "FiscalYearEnd", "Industry", "Name", "OfficialSite", "Sector", "Symbol", "CIK"}

\* No key is exempt from conversion.
KeptNothing(k) == FALSE
\* lines 183-187: the keys whose values stay as they are
KeptAsIs(k) ==
    \/ k \in keep_as_str
    \/ EndsWithStr(Lower(Chars(k)), Chars("date"))
    \/ Contains(Lower(Chars(k)), Chars("date"))
    \/ Contains(Lower(Chars(k)), Chars("quarter"))

\* lines 181-194
Normalized(data) ==
    [k \in DOMAIN data |->
        IF KeptAsIs(k) THEN data[k]
        ELSE LET conv == _convert_num(data[k])
             IN IF conv # JNull THEN conv ELSE data[k]]

\* What a call hands back to its action: the exception it raised ("" for
\* none), its return value, the requests it issued, the cache files it looked
\* up, the files and directory it leaves, and whether a cache write of its
\* failed.
Raise(exc, F, D) ==
    [raised |-> exc, ret |-> JNull, reqs |-> <<>>, reads |-> <<>>, fs |-> F, dir |-> D,
     wfail |-> FALSE]

\* The lookups of `if use_cache: _load_from_cache(cdir, symbol, dtype)`
Lookup(use_cache, symbol, data_type) ==
    IF use_cache THEN <<_get_cache_file(symbol, data_type)>> ELSE <<>>

\* lines 198-216: the income statement the CAGR is computed from
IncomeMiss(F, symbol, key, wok) ==
    Bind(Provider("INCOME_STATEMENT", symbol, version),
         LAMBDA fetched :
            [data |-> fetched, reqs |-> <<Url("INCOME_STATEMENT", symbol, key)>>,
             fs |-> _save_to_cache(F, symbol, "income_statement", fetched, wok),
             wfail |-> ~wok])

\* The income statement requested whatever the cache holds.
IncomeFetchedAnyway(F, symbol, key, use_cache, wok) == IncomeMiss(F, symbol, key, wok)

\* lines 198-216: from the cache when use_cache finds it there
IncomeForCagr(F, symbol, key, use_cache, wok) ==
    Bind(IF use_cache THEN _load_from_cache(F, symbol, "income_statement") ELSE JNull,
         LAMBDA cached :
            IF cached # JNull
            THEN [data |-> cached, reqs |-> <<>>, fs |-> F, wfail |-> FALSE]
            ELSE IncomeMiss(F, symbol, key, wok))

\* lines 181-223: the provider's record normalised, with data["RevCAGR5y"] set
OverviewRecord(data, income_stmt) ==
    ("RevCAGR5y" :> compute_5yr_cagr_from_annuals(income_stmt, "totalRevenue"))
       @@ Normalized(data)

\* lines 160-162 and 181-229: the request, the normalisation, the CAGR, the save
OverviewMiss(F, D, symbol, key, use_cache, wok, inc) ==
    Bind(JObj(OverviewRecord(Provider("OVERVIEW", symbol, version).kv, inc.data)),
         LAMBDA data :
            [raised |-> "", ret |-> data,
             reqs |-> <<Url("OVERVIEW", symbol, key)>> \o inc.reqs,
             reads |-> Lookup(use_cache, symbol, "overview")
                       \o Lookup(use_cache, symbol, "income_statement"),
             fs |-> _save_to_cache(inc.fs, symbol, "overview", data, wok),
             dir |-> _get_cache_dir(D), wfail |-> ~wok])

\* An overview served from the cache whether or not use_cache is set.
OverviewCachedAnyway(F, D, symbol, key, use_cache, wok) ==
    Bind(_load_from_cache(F, symbol, "overview"),
         LAMBDA cached :
            IF cached # JNull
            THEN [raised |-> "", ret |-> cached, reqs |-> <<>>,
                  reads |-> Lookup(use_cache, symbol, "overview"), fs |-> F,
                  dir |-> _get_cache_dir(D), wfail |-> FALSE]
            ELSE Bind(IncomeForCagr(F, symbol, key, use_cache, wok),
                      LAMBDA inc : OverviewMiss(F, D, symbol, key, use_cache, wok, inc)))

\* lines 153-229, past the key check
OverviewWithKey(F, D, symbol, key, use_cache, wok) ==
    Bind(IF use_cache THEN _load_from_cache(F, symbol, "overview") ELSE JNull,
         LAMBDA cached :
            IF cached # JNull
            THEN [raised |-> "", ret |-> cached, reqs |-> <<>>,
                  reads |-> Lookup(use_cache, symbol, "overview"), fs |-> F,
                  dir |-> _get_cache_dir(D), wfail |-> FALSE]
            ELSE Bind(IncomeForCagr(F, symbol, key, use_cache, wok),
                      LAMBDA inc : OverviewMiss(F, D, symbol, key, use_cache, wok, inc)))

fetch_company_overview(F, D, ticker, av_key, use_cache, wok) ==
    IF MissingKey(KeyOf(av_key)) THEN Raise("ValueError", F, D)
    ELSE IF MkdirRaises(D) THEN Raise("OSError", F, D)
    ELSE OverviewWithKey(F, D, SymbolOf(ticker), KeyOf(av_key), use_cache, wok)

----------------------------------------------------------------------------
(* fetch_company_ttm *)

\* lines 251-255, in iteration order
functions ==
    <<[func |-> "INCOME_STATEMENT", dtype |-> "income_statement"],
      [func |-> "BALANCE_SHEET", dtype |-> "balance_sheet"],
      [func |-> "CASH_FLOW", dtype |-> "cash_flow"]>>

\* A miss that saves the TTM record built from the answer in place of the
\* answer.
MissSavingTtm(S, fn, symbol, key, use_cache, wok) ==
    Bind(Provider(fn.func, symbol, version),
         LAMBDA data :
            [raw |-> (fn.dtype :> data) @@ S.raw,
             reqs |-> Append(S.reqs, Url(fn.func, symbol, key)),
             reads |-> S.reads \o Lookup(use_cache, symbol, fn.dtype),
             fs |-> _save_to_cache(S.fs, symbol, fn.dtype,
                                   build_ttm_from_statement(data), wok),
             wfail |-> S.wfail \/ ~wok])

\* lines 264-272: the request, and the save of its answer
Miss(S, fn, symbol, key, use_cache, wok) ==
    Bind(Provider(fn.func, symbol, version),
         LAMBDA data :
            [raw |-> (fn.dtype :> data) @@ S.raw,
             reqs |-> Append(S.reqs, Url(fn.func, symbol, key)),
             reads |-> S.reads \o Lookup(use_cache, symbol, fn.dtype),
             fs |-> _save_to_cache(S.fs, symbol, fn.dtype, data, wok),
             wfail |-> S.wfail \/ ~wok])

\* A pass that requests the statement whatever the cache holds.
FetchStatementAfresh(S, fn, symbol, key, use_cache, wok) ==
    Miss(S, fn, symbol, key, use_cache, wok)

\* lines 259-272: one pass of the loop, from the state S the passes before left
FetchStatement(S, fn, symbol, key, use_cache, wok) ==
    Bind(IF use_cache THEN _load_from_cache(S.fs, symbol, fn.dtype) ELSE JNull,
         LAMBDA cached :
            IF cached # JNull
            THEN [S EXCEPT !.raw = (fn.dtype :> cached) @@ S.raw,
                           !.reads = S.reads \o Lookup(use_cache, symbol, fn.dtype)]
            ELSE Miss(S, fn, symbol, key, use_cache, wok))

\* lines 258-272: the passes from the i-th on
RECURSIVE FetchLoop(_, _, _, _, _, _)
FetchLoop(S, i, symbol, key, use_cache, wok) ==
    IF i > Len(functions) THEN S
    ELSE Bind(FetchStatement(S, functions[i], symbol, key, use_cache, wok),
              LAMBDA T : FetchLoop(T, i + 1, symbol, key, use_cache, wok))

\* lines 274-282
TtmResult(raw) ==
    [income_ttm |-> build_ttm_from_statement(Get(raw, "income_statement")),
     balance_ttm |-> build_ttm_from_statement(Get(raw, "balance_sheet")),
     cashflow_ttm |-> build_ttm_from_statement(Get(raw, "cash_flow"))]

\* lines 249-282, past the key check
TtmWithKey(F, D, symbol, key, use_cache, wok) ==
    Bind(FetchLoop([raw |-> EmptyDict, reqs |-> <<>>, reads |-> <<>>, fs |-> F,
                    wfail |-> FALSE],
                   1, symbol, key, use_cache, wok),
         LAMBDA S :
            [raised |-> "", ret |-> JObj(TtmResult(S.raw)), reqs |-> S.reqs,
             reads |-> S.reads, fs |-> S.fs, dir |-> _get_cache_dir(D),
             wfail |-> S.wfail])

fetch_company_ttm(F, D, ticker, av_key, use_cache, wok) ==
    IF MissingKey(KeyOf(av_key)) THEN Raise("ValueError", F, D)
    ELSE IF MkdirRaises(D) THEN Raise("OSError", F, D)
    ELSE TtmWithKey(F, D, SymbolOf(ticker), KeyOf(av_key), use_cache, wok)

----------------------------------------------------------------------------
(* compute_financial_metrics *)

Abs(n) == IF n < 0 THEN -n ELSE n
SignOfQuotient(n, d) == IF (n < 0) # (d < 0) THEN -1 ELSE 1

\* n / d rounded to the nearest integer, ties to even (Python's round on the
\* exact quotient).
RoundDiv(n, d) ==
    LET q == Abs(n) \div Abs(d)
        r == Abs(n) % Abs(d)
        up == 2 * r > Abs(d) \/ (2 * r = Abs(d) /\ q % 2 = 1)
    IN SignOfQuotient(n, d) * (q + IF up THEN 1 ELSE 0)

\* int(n / d): truncation toward zero.
TruncDiv(n, d) == SignOfQuotient(n, d) * (Abs(n) \div Abs(d))

\* lines 351-363: round(_safe_div(a, b), 2), None when _safe_div is None
Margin(a, b) ==
    IF a = JNull \/ b = JNull THEN JNull
    ELSE IF Hundredths(b) = 0 THEN JNull
    ELSE JFloat(RoundDiv(100 * Hundredths(a), Hundredths(b)))

\* The fallback taken whenever the reported cost is falsy, a zero included.
CogsWhenFalsy(cost_of_revenue, revenue, gross_profit) ==
    IF ~Truthy(cost_of_revenue) /\ revenue # JNull /\ gross_profit # JNull
    THEN JFloat(Hundredths(revenue) - Hundredths(gross_profit))
    ELSE cost_of_revenue

\* lines 366-372
Cogs(cost_of_revenue, revenue, gross_profit) ==
    IF cost_of_revenue = JNull /\ revenue # JNull /\ gross_profit # JNull
    THEN JFloat(Hundredths(revenue) - Hundredths(gross_profit))
    ELSE cost_of_revenue

\* A guard that lets every denominator through.
NonZeroAlways(x) == TRUE

\* lines 375, 379, 383, 387: `x != 0`
NonZero(x) == Hundredths(x) # 0

\* float(a) / float(b): ZeroDivisionError on a zero divisor
DivisionRaises(b) == Hundredths(b) = 0

\* lines 374-384: int(float(item) / float(denominator) * 365.0)
Days(item, denominator) ==
    IF item # JNull /\ denominator # JNull /\ NonZero(denominator)
    THEN IF DivisionRaises(denominator) THEN PyRaise("ZeroDivisionError")
         ELSE JInt(TruncDiv(365 * Hundredths(item), Hundredths(denominator)))
    ELSE JNull

\* The combined figure taken only when it is truthy (`or` in place of the
\* test against None).
TotalDebtWhenTruthy(combined, short_term_debt, long_term_debt) ==
    LET parts == SelectSeq(<<short_term_debt, long_term_debt>>, LAMBDA v : v # JNull)
        total == TotalOf(parts, Len(parts))
    IN IF Truthy(combined) THEN combined
       ELSE IF parts = <<>> THEN combined
       ELSE IF \E i \in 1..Len(parts) : parts[i].t = "float" THEN JFloat(total)
       ELSE JInt(total \div 100)

\* lines 341-348: sum() of ints is an int, with a float in it a float
TotalDebt(combined, short_term_debt, long_term_debt) ==
    LET parts == SelectSeq(<<short_term_debt, long_term_debt>>, LAMBDA v : v # JNull)
        total == TotalOf(parts, Len(parts))
    IN IF combined # JNull THEN combined
       ELSE IF parts = <<>> THEN JNull
       ELSE IF \E i \in 1..Len(parts) : parts[i].t = "float" THEN JFloat(total)
       ELSE JInt(total \div 100)

\* lines 386-388: round(total_debt / total_equity, 1)
DebtToEquity(total_debt, total_equity) ==
    IF total_debt # JNull /\ total_equity # JNull /\ NonZero(total_equity)
    THEN IF DivisionRaises(total_equity) THEN PyRaise("ZeroDivisionError")
         ELSE JFloat(10 * RoundDiv(10 * Hundredths(total_debt), Hundredths(total_equity)))
    ELSE JNull

\* line 393: round(x, 2) of a number; a string there raises TypeError
BetaRaises(overview) == Get(overview, "Beta").t \notin {"null", "int", "float"}
Beta(overview) == Get(overview, "Beta")

\* `ttm.get("income_ttm") or {}`
DictOrEmpty(v) == IF Truthy(v) THEN v.kv ELSE EmptyDict

\* lines 309-410
Metrics(ttm, overview) ==
    LET income == DictOrEmpty(Get(ttm, "income_ttm"))
        bal == DictOrEmpty(Get(ttm, "balance_ttm"))
        revenue == Get(income, "totalRevenue")
        gross_profit == Get(income, "grossProfit")
        cogs == Cogs(Get(income, "costOfRevenue"), revenue, gross_profit)
        total_debt == TotalDebt(Get(bal, "shortLongTermDebtTotal"),
                                Get(bal, "shortTermDebt"), Get(bal, "longTermDebt"))
    IN ("revenue" :> revenue)
       @@ ("gross margin" :> Margin(gross_profit, revenue))
       @@ ("ebit margin" :> Margin(Get(income, "operatingIncome"), revenue))
       @@ ("net margin" :> Margin(Get(income, "netIncome"), revenue))
       @@ ("receivable days" :> Days(Get(bal, "currentNetReceivables"), revenue))
       @@ ("inventory days" :> Days(Get(bal, "inventory"), cogs))
       @@ ("payable days" :> Days(Get(bal, "currentAccountsPayable"), cogs))
       @@ ("debt to equity ratio" :> DebtToEquity(total_debt, Get(bal, "totalShareholderEquity")))
       @@ ("return on capital" :> Get(overview, "ReturnOnAssetsTTM"))
       @@ ("return on equity" :> Get(overview, "ReturnOnEquityTTM"))
       @@ ("beta" :> Beta(overview))
       @@ ("rev cagr 5y" :> Get(overview, "RevCAGR5y"))

\* The exception a ratio of lines 374-388 raised, "" when none did.
RatioRaised(m) ==
    IF \E k \in DOMAIN m : m[k].t = "raise"
    THEN m[CHOOSE k \in DOMAIN m : m[k].t = "raise"].exc
    ELSE ""

\* lines 307-412: the overview fetch on the files the TTM fetch t left, then
\* the ratios
MetricsAfterTtm(t, o) ==
    LET both == [raised |-> "", ret |-> JNull, reqs |-> t.reqs \o o.reqs,
                 reads |-> t.reads \o o.reads, fs |-> o.fs, dir |-> o.dir,
                 wfail |-> t.wfail \/ o.wfail]
    IN IF o.raised # "" THEN [both EXCEPT !.raised = o.raised]
       ELSE Bind(Metrics(t.ret.kv, o.ret.kv),
                 LAMBDA m :
                    IF RatioRaised(m) # "" THEN [both EXCEPT !.raised = RatioRaised(m)]
                    ELSE IF BetaRaises(o.ret.kv) THEN [both EXCEPT !.raised = "TypeError"]
                    ELSE [both EXCEPT !.ret = JObj(m)])

\* lines 306-412
compute_financial_metrics(F, D, ticker, av_key, use_cache, wok) ==
    Bind(fetch_company_ttm(F, D, ticker, av_key, use_cache, wok),
         LAMBDA t :
            IF t.raised # "" THEN t
            ELSE Bind(fetch_company_overview(t.fs, t.dir, ticker, av_key, use_cache, wok),
                      LAMBDA o : MetricsAfterTtm(t, o)))

----------------------------------------------------------------------------
(* The ratios of compute_financial_metrics on their own: TTM records as    *)
(* build_ttm_from_statement produces them (integers, floats, nulls, absent *)
(* keys), and an overview with numeric fields.                             *)

RevenueValues == {Absent, JNull, JInt(0), JFloat(0), JInt(100), JFloat(1250)}
GrossProfitValues == {JNull, JInt(40), JInt(100)}
CostValues == {JNull, JInt(0), JInt(60)}
EquityValues == {JNull, JInt(0), JInt(50)}

\* v when present, null otherwise
Opt(present, v) == IF present THEN v ELSE JNull

IncomeTtm(rev, gp, cost, hasIncome) ==
    JObj(FieldIf("totalRevenue", rev)
         @@ ("grossProfit" :> gp)
         @@ ("costOfRevenue" :> cost)
         @@ ("operatingIncome" :> Opt(hasIncome, JInt(25)))
         @@ ("netIncome" :> Opt(hasIncome, JInt(-5))))

BalanceTtm(hasRecv, hasStock, hasShort, hasLong, hasTotal, equity) ==
    JObj(("currentNetReceivables" :> Opt(hasRecv, JInt(25)))
         @@ ("inventory" :> Opt(hasStock, JInt(30)))
         @@ ("currentAccountsPayable" :> Opt(hasStock, JFloat(1250)))
         @@ ("shortTermDebt" :> Opt(hasShort, JInt(10)))
         @@ ("longTermDebt" :> Opt(hasLong, JFloat(2050)))
         @@ ("shortLongTermDebtTotal" :> Opt(hasTotal, JInt(0)))
         @@ ("totalShareholderEquity" :> equity))

NumericOverview ==
    [Beta |-> JFloat(120), ReturnOnAssetsTTM |-> JFloat(5), ReturnOnEquityTTM |-> JFloat(1250),
     RevCAGR5y |-> JFloat(4)]

InitMetrics ==
    /\ CacheIdle
    /\ \/ stmt = JObj([income_ttm |-> JNull, balance_ttm |-> JNull, cashflow_ttm |-> JNull])
       \/ \E rev \in RevenueValues, gp \in GrossProfitValues, cost \in CostValues,
             equity \in EquityValues,
             hasIncome \in BOOLEAN, hasRecv \in BOOLEAN, hasStock \in BOOLEAN,
             hasShort \in BOOLEAN, hasLong \in BOOLEAN, hasTotal \in BOOLEAN :
             stmt = JObj([income_ttm |-> IncomeTtm(rev, gp, cost, hasIncome),
                          balance_ttm |-> BalanceTtm(hasRecv, hasStock, hasShort, hasLong,
                                                     hasTotal, equity),
                          cashflow_ttm |-> JNull])
    /\ field = ""
    /\ out = Pending

ComputeRatios ==
    /\ out = Pending
    /\ out' = JObj(Metrics(stmt.kv, NumericOverview))
    /\ UNCHANGED <<fs, dir, envKey, version, cur, prev, calls, stmt, field,
                   files, shared_list, page, procs>>

SpecMetrics == InitMetrics /\ [][ComputeRatios]_vars

----------------------------------------------------------------------------
(* The program as a state machine: calls of the three entry points, one    *)
(* after the other, against a provider whose data changes between calls.   *)

ApiKeys == {JNull, JStr("k")}
EnvKeys == {JNull, JStr(""), JStr("e")}

FileNames == {_get_cache_file(SymbolOf(t), d) : t \in Tickers, d \in DataTypes}

Init ==
    /\ envKey \in EnvKeys
    /\ version = 0
    /\ \/ dir \in {"missing", "blocked", "readonly"} /\ fs = <<>>
       \/ /\ dir = "present"
          /\ \E bad \in SUBSET FileNames :
                Cardinality(bad) <= MaxCorrupt /\ fs = [p \in bad |-> Garbage]
    /\ cur = Idle /\ prev = Idle /\ calls = 0
    /\ stmt = JNull /\ field = "" /\ out = Pending
    /\ DashboardIdle

\* The record of a call that ended with result r.
CallRecord(fn, ticker, av_key, use_cache, r) ==
    [fn |-> fn, symbol |-> SymbolOf(ticker), av_key |-> av_key,
     use_cache |-> use_cache, raised |-> r.raised, ret |-> r.ret, reqs |-> r.reqs,
     reads |-> r.reads, wfail |-> r.wfail]

Finish(fn, ticker, av_key, use_cache, r) ==
    /\ fs' = r.fs
    /\ dir' = r.dir
    /\ prev' = cur
    /\ cur' = CallRecord(fn, ticker, av_key, use_cache, r)
    /\ calls' = calls + 1
    /\ UNCHANGED <<envKey, version, stmt, field, out,
                   files, shared_list, page, procs>>

FetchOverview ==
    /\ calls < MaxCalls
    /\ \E ticker \in Tickers, av_key \in ApiKeys, use_cache \in BOOLEAN :
          \E r \in {fetch_company_overview(fs, dir, ticker, av_key, use_cache, Writable(dir))} :
             Finish("fetch_company_overview", ticker, av_key, use_cache, r)

FetchTtm ==
    /\ calls < MaxCalls
    /\ \E ticker \in Tickers, av_key \in ApiKeys, use_cache \in BOOLEAN :
          \E r \in {fetch_company_ttm(fs, dir, ticker, av_key, use_cache, Writable(dir))} :
             Finish("fetch_company_ttm", ticker, av_key, use_cache, r)

ComputeMetrics ==
    /\ calls < MaxCalls
    /\ \E ticker \in Tickers, av_key \in ApiKeys, use_cache \in BOOLEAN :
          \E r \in {compute_financial_metrics(fs, dir, ticker, av_key, use_cache, Writable(dir))} :
             Finish("compute_financial_metrics", ticker, av_key, use_cache, r)

\* The provider publishes another revision of its data.
ProviderChange ==
    /\ calls < MaxCalls
    /\ version < MaxVersion
    /\ version' = version + 1
    /\ UNCHANGED <<fs, dir, envKey, cur, prev, calls, stmt, field, out,
                   files, shared_list, page, procs>>

Next == FetchOverview \/ FetchTtm \/ ComputeMetrics \/ ProviderChange

Spec == Init /\ [][Next]_vars

----------------------------------------------------------------------------
(* The overview's normalisation on its own: the provider's OVERVIEW and    *)
(* INCOME_STATEMENT answers are the input, the record returned on a cache  *)
(* miss the output.                                                        *)

OverviewFields == {"Symbol", "Name", "Beta", "PERatio", "DividendDate", "LatestQuarter"}

OverviewValues ==
    {JStr("12.5"), JStr("None"), JStr("-"), JStr("1,234"), JStr("(500)"), JStr("USD"),
     JStr(""), JStr("0"), JNull}

InitOverview ==
    /\ CacheIdle
    /\ \E present \in SUBSET OverviewFields, v \in OverviewValues, w \in OverviewValues,
          rev \in 0..1 :
          stmt = JObj([OVERVIEW |->
                          JObj([k \in present |->
                                  IF k \in {"Symbol", "Beta", "DividendDate"} THEN v ELSE w]),
                       INCOME_STATEMENT |-> IncomePayload(SymAB, rev)])
    /\ field = ""
    /\ out = Pending

NormalizeOverview ==
    /\ out = Pending
    /\ out' = JObj(OverviewRecord(stmt.kv["OVERVIEW"].kv, stmt.kv["INCOME_STATEMENT"]))
    /\ UNCHANGED <<fs, dir, envKey, version, cur, prev, calls, stmt, field,
                   files, shared_list, page, procs>>

SpecOverview == InitOverview /\ [][NormalizeOverview]_vars

----------------------------------------------------------------------------
(* What the claims about the cache are stated against.                     *)

Fetches == {"fetch_company_overview", "fetch_company_ttm"}

\* A step of Next that is a call of an entry point; cur' is its record.
CallStep == calls' = calls + 1

\* The call was given no key and the environment has none.
NoKey(c) == ~Truthy(c.av_key) /\ ~Truthy(envKey)

FuncOf(data_type) ==
    CASE data_type = "overview" -> "OVERVIEW"
      [] data_type = "income_statement" -> "INCOME_STATEMENT"
      [] data_type = "balance_sheet" -> "BALANCE_SHEET"
      [] data_type = "cash_flow" -> "CASH_FLOW"

TtmKeyOf(data_type) ==
    CASE data_type = "income_statement" -> "income_ttm"
      [] data_type = "balance_sheet" -> "balance_ttm"
      [] data_type = "cash_flow" -> "cashflow_ttm"

\* Call c asked the provider for the data type of the symbol.
Requested(c, symbol, data_type) ==
    \E i \in 1..Len(c.reqs) :
        c.reqs[i].function = FuncOf(data_type) /\ c.reqs[i].symbol = symbol

Parseable(F, p) == p \in DOMAIN F /\ F[p].kind = "json"

\* Two calls in a row of the same fetch for the same symbol, both with
\* caching enabled, the first completed, the second given a key.
Repeated ==
    /\ prev.fn \in Fetches
    /\ cur.fn = prev.fn
    /\ cur.symbol = prev.symbol
    /\ prev.use_cache /\ cur.use_cache
    /\ prev.raised = ""
    /\ ~NoKey(cur)

SecondFromCache == cur.raised = "" /\ cur.ret = prev.ret /\ cur.reqs = <<>>

\* C1 as stated: after one fetch completed with caching enabled, a second
\* call with caching enabled on the same symbol returns what the first
\* returned and issues no request.
C1_AsStated == Repeated => SecondFromCache

\* C1: after one fetch completed with caching enabled and none of its cache
\* writes failed, a second call with caching enabled on the same symbol
\* returns data equal to what the first call returned and issues no request.
C1_RoundTripWhenSaved == Repeated /\ ~prev.wfail => SecondFromCache

\* The first call went to the provider, the second one did not.
C1_Witness ==
    /\ Repeated /\ ~prev.wfail
    /\ prev.reqs # <<>>
    /\ SecondFromCache

\* What a fetch of the data type returns when it is served from a document.
ServedFrom(c, doc, data_type) ==
    CASE c.fn = "fetch_company_overview" /\ data_type = "overview" -> c.ret = Loads(doc)
      [] c.fn = "fetch_company_ttm" /\ data_type # "overview" ->
            c.ret.kv[TtmKeyOf(data_type)] = build_ttm_from_statement(Loads(doc))
      [] OTHER -> TRUE

KeptAndServed ==
    CallStep /\ cur'.use_cache =>
        \A t \in Tickers, d \in DataTypes :
            LET p == _get_cache_file(SymbolOf(t), d)
            IN Parseable(fs, p) =>
                  /\ Parseable(fs', p) /\ fs'[p] = fs[p]
                  /\ cur'.symbol = SymbolOf(t) /\ cur'.raised = "" =>
                        /\ ~Requested(cur', SymbolOf(t), d)
                        /\ ServedFrom(cur', fs[p].doc, d)

\* C2: a call made with use_cache=True never rewrites or removes a parseable
\* cache file, and a fetch of a (symbol, data type) whose file is parseable
\* returns the file's contents and sends no request for it, whatever the
\* provider holds by then.
C2_CacheNeverExpires == [][KeptAndServed]_vars

\* The provider has moved on to an error payload; the overview is still
\* served from the file written from the earlier revision.
C2_Witness ==
    /\ cur.fn = "fetch_company_overview" /\ cur.use_cache /\ cur.raised = ""
    /\ cur.reqs = <<>>
    /\ Provider("OVERVIEW", cur.symbol, version) = ErrorPayload
    /\ Parseable(fs, _get_cache_file(cur.symbol, "overview"))
    /\ cur.ret = Loads(fs[_get_cache_file(cur.symbol, "overview")].doc)
    /\ "Symbol" \in DOMAIN cur.ret.kv

FailsFast ==
    CallStep /\ NoKey(cur') =>
        /\ cur'.raised = "ValueError"
        /\ cur'.reqs = <<>> /\ cur'.reads = <<>>
        /\ fs' = fs /\ dir' = dir

\* C3: a call of any of the three entry points with no key passed and AV_KEY
\* unset or empty raises ValueError, sends no request, looks up no cache
\* file and leaves the files and the cache directory as they were, cached
\* data or not.
C3_NoKeyFailsFast == [][FailsFast]_vars

\* A call without a key for a symbol whose overview is in the cache.
C3_Witness ==
    /\ cur.fn \in Fetches \cup {"compute_financial_metrics"}
    /\ NoKey(cur) /\ cur.use_cache
    /\ cur.raised = "ValueError"
    /\ Parseable(fs, _get_cache_file(cur.symbol, "overview"))

\* The document the file of (symbol, data type) holds after the step.
WrittenDoc(symbol, data_type) == Loads(fs'[_get_cache_file(symbol, data_type)].doc)

PayloadAsIs ==
    CallStep /\ cur'.raised = "" /\ ~cur'.wfail =>
        \A d \in DataTypes :
            Requested(cur', cur'.symbol, d) =>
                /\ Parseable(fs', _get_cache_file(cur'.symbol, d))
                /\ WrittenDoc(cur'.symbol, d) = Provider(FuncOf(d), cur'.symbol, version)
                /\ cur'.fn = "fetch_company_overview" /\ d = "overview" =>
                      cur'.ret = Provider(FuncOf(d), cur'.symbol, version)

\* C4 as stated: on a cache miss whatever object the provider returns is
\* written to the cache file and returned as it is (read here for the calls
\* whose cache writes went through).
C4_AsStated == [][PayloadAsIs]_vars

\* The overview as it is written: its text fields as the provider sent them,
\* its numeric strings as numbers, and the revenue CAGR added.
NormalizedOverview(w, payload) ==
    /\ DOMAIN w.kv = DOMAIN payload.kv \cup {"RevCAGR5y"}
    /\ w.kv["RevCAGR5y"].t \in {"null", "float"}
    /\ \A k \in DOMAIN payload.kv :
          w.kv[k] = IF KeptAsIs(k) \/ _convert_num(payload.kv[k]) = JNull
                    THEN payload.kv[k]
                    ELSE _convert_num(payload.kv[k])

PayloadCached ==
    CallStep /\ cur'.raised = "" /\ ~cur'.wfail =>
        \A d \in DataTypes :
            Requested(cur', cur'.symbol, d) =>
                LET payload == Provider(FuncOf(d), cur'.symbol, version)
                IN /\ Parseable(fs', _get_cache_file(cur'.symbol, d))
                   /\ IF d = "overview"
                      THEN /\ NormalizedOverview(WrittenDoc(cur'.symbol, d), payload)
                           /\ cur'.fn = "fetch_company_overview" =>
                                 cur'.ret = WrittenDoc(cur'.symbol, d)
                      ELSE WrittenDoc(cur'.symbol, d) = payload

\* C4: on a cache miss nothing is validated. When the cache write succeeds, a
\* statement payload is written to the file of (symbol, data type) as the
\* provider sent it, error payloads included; the overview is written, and
\* returned, with its numeric strings converted and RevCAGR5y added.
C4_PayloadCachedUnvalidated == [][PayloadCached]_vars

\* An error payload was fetched and now sits in the cache.
C4_Witness ==
    /\ cur.fn = "fetch_company_ttm" /\ cur.raised = "" /\ ~cur.wfail
    /\ Requested(cur, cur.symbol, "income_statement")
    /\ Parseable(fs, _get_cache_file(cur.symbol, "income_statement"))
    /\ Loads(fs[_get_cache_file(cur.symbol, "income_statement")].doc) = ErrorPayload
    /\ cur.ret.kv["income_ttm"] = JNull

----------------------------------------------------------------------------
(* What the claims about the pure functions are stated against: the number *)
(* each input literal denotes, read off the literal and not computed by    *)
(* the converter.                                                          *)

Denotes(v) ==
    CASE v = JStr("0") -> JInt(0)
      [] v = JStr("10") -> JInt(10)
      [] v = JStr("20") -> JInt(20)
      [] v = JStr("30") -> JInt(30)
      [] v = JStr("40") -> JInt(40)
      [] v = JStr("100") -> JInt(100)
      [] v = JStr("121") -> JInt(121)
      [] v = JStr("-5") -> JInt(-5)
      [] v = JStr("12.5") -> JFloat(1250)
      [] v = JStr("7.25") -> JFloat(725)
      [] OTHER -> JNull

\* The reports of the statement under test ("quarterlyReports" or "annualReports").
ReportsIn(key) ==
    IF stmt.t = "obj" /\ key \in DOMAIN stmt.kv /\ stmt.kv[key].t = "list"
    THEN stmt.kv[key].items
    ELSE <<>>

Quarters == ReportsIn("quarterlyReports")
Used == Min(4, Len(Quarters))
Built == out # Pending /\ Len(Quarters) >= 1
SummedKeys == DOMAIN out.kv \ (HouseKeeping \cup {"_ttm_from_quarters"})

\* The sum, in hundredths, of what field k denotes in the first n reports.
RECURSIVE DenotedSum(_, _, _)
DenotedSum(reports, k, n) ==
    IF n = 0 THEN 0
    ELSE LET d == Denotes(Get(reports[n].kv, k))
         IN DenotedSum(reports, k, n - 1) + (IF d = JNull THEN 0 ELSE Hundredths(d))

\* C5: with n >= 1 quarterly reports every summed field is the sum of its
\* non-null values over the first min(4, n) reports only; later reports add
\* neither value nor key; quarters 10, 20, 30, 40 give 100, one quarter 10 gives 10.
C5_SumOfFirstFour ==
    Built =>
        /\ out.t = "obj"
        /\ \A k \in SummedKeys :
              /\ \E i \in 1..Used : k \in DOMAIN Quarters[i].kv
              /\ out.kv[k] # JNull =>
                    Hundredths(out.kv[k]) = DenotedSum(Quarters, k, Used)
        /\ \A i \in 1..Used : DOMAIN Quarters[i].kv \subseteq DOMAIN out.kv
        /\ Len(Quarters) >= 4 => out.kv["netIncome"] = JInt(100)
        /\ Len(Quarters) = 1 => out.kv["netIncome"] = JInt(10)

\* Five reports, the fifth carrying a revenue the first four lack.
C5_Witness ==
    /\ Built
    /\ Len(Quarters) = 5
    /\ "totalRevenue" \in DOMAIN Quarters[5].kv
    /\ "totalRevenue" \notin DOMAIN out.kv
    /\ out.kv["netIncome"] = JInt(100)

\* The result is a TTM record.
IsTtmRecord == out.t = "obj" /\ "_ttm_from_quarters" \in DOMAIN out.kv

\* C6 as stated: the result is null when the statement is missing or empty,
\* has no quarterlyReports key, or has an empty quarterlyReports list; in
\* every other case it is a TTM record.
C6_AsStated ==
    out # Pending =>
        /\ out = JNull <=>
              \/ stmt = JNull
              \/ stmt = JObj(EmptyDict)
              \/ "quarterlyReports" \notin DOMAIN stmt.kv
              \/ stmt.kv["quarterlyReports"] = JList(<<>>)
        /\ out # JNull => IsTtmRecord

\* C6: the result is null exactly when the statement is missing or empty, has
\* no quarterlyReports key, or has a quarterlyReports that is null or an
\* empty list; with a non-empty list of reports it is a TTM record.
C6_NullIffNoReports ==
    out # Pending =>
        /\ out = JNull <=>
              \/ stmt = JNull
              \/ stmt = JObj(EmptyDict)
              \/ "quarterlyReports" \notin DOMAIN stmt.kv
              \/ stmt.kv["quarterlyReports"] \in {JNull, JList(<<>>)}
        /\ out # JNull => IsTtmRecord

\* A statement whose quarterlyReports is null was given and null came back.
C6_Witness ==
    /\ out = JNull
    /\ stmt.t = "obj"
    /\ "quarterlyReports" \in DOMAIN stmt.kv
    /\ stmt.kv["quarterlyReports"] = JNull

\* C7: a summed field is null iff its value is null (absent, empty, "None",
\* not a number) in every report used; otherwise it is a number and the null
\* entries count as zero.
C7_NullIffAllNull ==
    Built =>
        \A k \in SummedKeys :
            /\ out.kv[k] = JNull <=>
                  \A i \in 1..Used : Denotes(Get(Quarters[i].kv, k)) = JNull
            /\ out.kv[k] # JNull =>
                  /\ out.kv[k].t \in {"int", "float"}
                  /\ Hundredths(out.kv[k]) = DenotedSum(Quarters, k, Used)

\* Revenue absent, empty, "None" and unconvertible in three reports, 10 in one.
C7_Witness ==
    /\ Built
    /\ Len(Quarters) = 4
    /\ {Get(Quarters[i].kv, "totalRevenue") : i \in 1..4}
          = {JNull, JStr("None"), JStr("abc"), JStr("10")}
    /\ out.kv["totalRevenue"] = JInt(10)

\* C8: a non-null summed field is a float if one of its summed components is
\* a float, and an integer if all of them are integers.
C8_FloatIffAnyFloat ==
    Built =>
        \A k \in SummedKeys :
            out.kv[k] # JNull =>
                out.kv[k].t =
                    IF \E i \in 1..Used : Denotes(Get(Quarters[i].kv, k)).t = "float"
                    THEN "float" ELSE "int"

\* An integer and a float revenue summed to a float.
C8_Witness ==
    /\ Built
    /\ Len(Quarters) = 2
    /\ Get(Quarters[1].kv, "totalRevenue") = JStr("10")
    /\ Get(Quarters[2].kv, "totalRevenue") = JStr("12.5")
    /\ out.kv["totalRevenue"] = JFloat(2250)
    /\ out.kv["netIncome"] = JInt(30)

\* C9: fiscalDateEnding and reportedCurrency are copied from the most recent
\* report, never summed, and _ttm_from_quarters lists the end-dates of
\* exactly the reports summed, most recent first.
C9_HouseKeepingCopied ==
    Built =>
        /\ \A k \in HouseKeeping \cap DOMAIN out.kv : out.kv[k] = Get(Quarters[1].kv, k)
        /\ out.kv["_ttm_from_quarters"].t = "list"
        /\ Len(out.kv["_ttm_from_quarters"].items) = Used
        /\ \A i \in 1..Used :
              out.kv["_ttm_from_quarters"].items[i] = Get(Quarters[i].kv, "fiscalDateEnding")

\* Five dated reports: the first one's date and currency, four dates listed.
C9_Witness ==
    /\ Built
    /\ Len(Quarters) = 5
    /\ Get(out.kv, "fiscalDateEnding") = JStr("d0")
    /\ Get(out.kv, "reportedCurrency") = JStr("USD")
    /\ out.kv["_ttm_from_quarters"].items = <<JStr("d0"), JStr("d1"), JStr("d2"), JStr("d3")>>

Annuals == ReportsIn("annualReports")

\* The literal is a strictly positive number.
DenotesPositive(v) == Denotes(v) # JNull /\ Hundredths(Denotes(v)) > 0

\* The statement with every report but the two endpoints emptied.
RECURSIVE EndpointsOnly(_, _)
EndpointsOnly(reports, n) ==
    IF n = 0 THEN <<>>
    ELSE Append(EndpointsOnly(reports, n - 1),
                IF n \in {1, 6} THEN reports[n] ELSE JObj(EmptyDict))

\* C10: the CAGR is null unless there are six annual reports and the values at
\* index 0 and index 5 are both strictly positive numbers; then it is a number;
\* no other report is read; 121 over 100 gives 0.04.
C10_CagrNullUnlessPositiveEnds ==
    out # Pending =>
        /\ out = JNull <=>
              ~ /\ Len(Annuals) >= 6
                /\ DenotesPositive(Get(Annuals[1].kv, field))
                /\ DenotesPositive(Get(Annuals[6].kv, field))
        /\ out # JNull => out.t = "float"
        /\ Len(Annuals) >= 1 =>
              out = compute_5yr_cagr_from_annuals(
                        JObj([annualReports |-> JList(EndpointsOnly(Annuals, Len(Annuals)))]),
                        field)
        /\ (/\ Len(Annuals) >= 6
            /\ Get(Annuals[1].kv, field) = JStr("121")
            /\ Get(Annuals[6].kv, field) = JStr("100")) => out = JFloat(4)

\* Seven reports, earlier revenue 0: null although the other reports are numeric.
C10_Witness ==
    /\ out = JNull
    /\ Len(Annuals) = 7
    /\ field = "totalRevenue"
    /\ Get(Annuals[1].kv, "totalRevenue") = JStr("121")
    /\ Get(Annuals[6].kv, "totalRevenue") = JStr("0")
    /\ Get(Annuals[5].kv, "totalRevenue") = JStr("30")
----------------------------------------------------------------------------
(* What the claims about the ratios are stated against: the inputs as the  *)
(* TTM records under test hold them.                                       *)

RatiosDone == out # Pending
InIncome(k) == Get(DictOrEmpty(stmt.kv["income_ttm"]), k)
InBalance(k) == Get(DictOrEmpty(stmt.kv["balance_ttm"]), k)

\* The input is null, or a zero where a denominator is needed.
Missing(v) == v = JNull
Zero(v) == v # JNull /\ Hundredths(v) = 0

\* COGS as the days use it: the cost of revenue, or revenue less gross profit.
CogsMissing ==
    Missing(InIncome("costOfRevenue"))
    /\ (Missing(InIncome("totalRevenue")) \/ Missing(InIncome("grossProfit")))
CogsZero ==
    \/ Zero(InIncome("costOfRevenue"))
    \/ /\ Missing(InIncome("costOfRevenue"))
       /\ ~Missing(InIncome("totalRevenue")) /\ ~Missing(InIncome("grossProfit"))
       /\ Hundredths(InIncome("totalRevenue")) = Hundredths(InIncome("grossProfit"))
DebtMissing ==
    /\ Missing(InBalance("shortLongTermDebtTotal"))
    /\ Missing(InBalance("shortTermDebt"))
    /\ Missing(InBalance("longTermDebt"))

NoRevenue == Missing(InIncome("totalRevenue")) \/ Zero(InIncome("totalRevenue"))
NoCogs == CogsMissing \/ CogsZero
NoEquity ==
    Missing(InBalance("totalShareholderEquity")) \/ Zero(InBalance("totalShareholderEquity"))

\* C11: no ratio raises, and each ratio is null when an input it needs is
\* null or its denominator (revenue, COGS, total equity) is zero; with
\* revenue 0 every margin is null.
C11_RatiosNullNotRaised ==
    RatiosDone =>
        /\ \A k \in DOMAIN out.kv : out.kv[k].t # "raise"
        /\ NoRevenue \/ Missing(InIncome("grossProfit")) => out.kv["gross margin"] = JNull
        /\ NoRevenue \/ Missing(InIncome("operatingIncome")) => out.kv["ebit margin"] = JNull
        /\ NoRevenue \/ Missing(InIncome("netIncome")) => out.kv["net margin"] = JNull
        /\ NoRevenue \/ Missing(InBalance("currentNetReceivables")) =>
              out.kv["receivable days"] = JNull
        /\ NoCogs \/ Missing(InBalance("inventory")) => out.kv["inventory days"] = JNull
        /\ NoCogs \/ Missing(InBalance("currentAccountsPayable")) =>
              out.kv["payable days"] = JNull
        /\ NoEquity \/ DebtMissing => out.kv["debt to equity ratio"] = JNull
        /\ Zero(InIncome("totalRevenue")) =>
              /\ out.kv["gross margin"] = JNull
              /\ out.kv["ebit margin"] = JNull
              /\ out.kv["net margin"] = JNull

\* Revenue 0 with every other input present: margins and receivable days are
\* null, the days on COGS and the debt ratio are numbers.
C11_Witness ==
    /\ RatiosDone
    /\ InIncome("totalRevenue") = JInt(0)
    /\ InIncome("grossProfit") = JInt(40)
    /\ InIncome("costOfRevenue") = JInt(60)
    /\ InBalance("currentNetReceivables") = JInt(25)
    /\ out.kv["gross margin"] = JNull /\ out.kv["net margin"] = JNull
    /\ out.kv["receivable days"] = JNull
    /\ out.kv["inventory days"] = JInt(182)
    /\ out.kv["revenue"] = JInt(0)
----------------------------------------------------------------------------
(* compute_financial_metrics and the overview it is given.                 *)

\* A call of compute_financial_metrics that got past the key check and the
\* cache directory.
MetricsCalled ==
    cur.fn = "compute_financial_metrics" /\ cur.raised \notin {"ValueError", "OSError"}

\* C12 as stated: whatever overview the provider or the cache supplies, Beta
\* absent or an unconvertible string included, compute_financial_metrics does
\* not raise and returns a record whose beta is a number or null.
C12_AsStated ==
    MetricsCalled =>
        /\ cur.raised = ""
        /\ cur.ret.kv["beta"].t \in {"null", "int", "float"}

----------------------------------------------------------------------------
(* adamodaran_utils.py: the industry spreadsheets and the topic accessors  *)
(*                                                                         *)
(* A table is a function from its index (industry names) to rows, a row a  *)
(* function from column names to cells. A cell is a float in hundredths,   *)
(* an int, NaN or an infinity. The master sheet of companies is a sequence *)
(* of rows. Assigning a column to a table aligns it on the table's index.  *)

NaN == [t |-> "nan"]
Inf(sign) == [t |-> "inf", sign |-> sign]

TotalMarket == "Total Market (without financials)"
\* The literal the accessors append (lines 245, 280, 314, 355, 390, 423).
Sentinel == "Total Market (without financials"

Industries == {"Apparel", "Shoe", TotalMarket}

Spreadsheets ==
    {"DollarUS", "wcdata", "Employee", "margin", "EVA", "pbvdata", "pedata",
     "psdata", "vebitda", "betas", "wacc", "histgr"}

PositiveEbitda(c) == <<"Only positive EBITDA firms", c>>

\* The columns of each spreadsheet that the accessors read.
ColumnsOf(file) ==
    CASE file = "DollarUS" ->
            {"Revenues ($ millions)", "Gross Profit ($ millions)", "EBITDA ($ millions)",
             "EBIT (Operating Income) ($ millions)", "Net Income ( $ millions)"}
      [] file = "wcdata" -> {"Acc Rec/ Sales", "Inventory/Sales", "Acc Pay/ Sales"}
      [] file = "Employee" -> {"Revenues per Employee  ($)"}
      [] file = "margin" ->
            {"Gross Margin", "Net Margin", "After-tax Lease & R&D adj Margin",
             "EBITDA/Sales", "R&D/Sales", "SG&A/ Sales"}
      [] file = "EVA" -> {"ROE", "(ROE - COE)", "ROC", "(ROC - WACC)", "EVA (US $ millions)"}
      [] file = "pbvdata" -> {"PBV", "EV/ Invested Capital"}
      [] file = "pedata" ->
            {"Current PE", "Trailing PE", "Forward PE", "% of Money Losing firms (Trailing)"}
      [] file = "psdata" -> {"Price/Sales", "EV/Sales"}
      [] file = "vebitda" -> {PositiveEbitda("EV/EBITDA"), PositiveEbitda("EV/EBIT")}
      [] file = "betas" -> {"Number of firms", "D/E Ratio", "Average Unlevered Beta"}
      [] file = "wacc" -> {"Cost of Equity", "After-tax Cost of Debt", "Cost of Capital"}
      [] file = "histgr" ->
            {"CAGR in Net Income- Last 5 years", "CAGR in Revenues- Last 5 years",
             "Expected Growth in Revenues - Next 2 years",
             "Expected Growth in Revenues - Next 5 years"}

\* get_adamodar_file (lines 43-67): the table of one spreadsheet.
get_adamodar_file(F, filename) == F[filename]

\* data_df[c]: one column, a series on the table's index.
Column(T, c) == [r \in DOMAIN T |-> T[r][c]]

\* What assigning the series S to a column of a table indexed by idx stores:
\* the values of S aligned on idx, NaN where S has no such row.
Reindex(S, idx) == [r \in idx |-> IF r \in DOMAIN S THEN S[r] ELSE NaN]

\* np.round(x / 1000): x in hundredths, the result a float with no fraction.
RoundThousands(x) == IF x = NaN THEN NaN ELSE JFloat(100 * RoundDiv(x.f, 100000))

\* np.round(x * 100)
RoundPercent(x) == IF x = NaN THEN NaN ELSE JFloat(100 * RoundDiv(100 * x.f, 100))

\* np.round(x * 100, 1)
RoundPercent1(x) == IF x = NaN THEN NaN ELSE JFloat(10 * RoundDiv(100 * x.f, 10))

\* np.round(x * 365)
RoundDays(x) == IF x = NaN THEN NaN ELSE JFloat(100 * RoundDiv(365 * x.f, 100))

\* np.round(x, 1) and np.round(x, 2)
Round1(x) == IF x.t = "float" THEN JFloat(10 * RoundDiv(x.f, 10)) ELSE x
Round2(x) == IF x.t = "float" THEN JFloat(RoundDiv(100 * x.f, 100)) ELSE x

\* .astype(int) without the fillna
AsIntKeepNaN(x) == IF x = NaN THEN NaN ELSE JInt(x.f \div 100)
\* .fillna(0).astype(int) on a cell that np.round left without fraction
FillNaAsInt(x) == IF x = NaN THEN JInt(0) ELSE JInt(x.f \div 100)

\* df[df.index.isin(industry_list)]
IsIn(T, names) ==
    [r \in {x \in DOMAIN T : \E i \in DOMAIN names : names[i] = x} |-> T[r]]

\* industry_list.append(sentinel) on a copy: the caller's list is left alone.
AppendToCopy(L, name) == L
\* industry_list.append(sentinel): the list object itself grows.
AppendInPlace(L, name) == JList(Append(L.items, name))

\* The result of an accessor: the table returned, the caller's list after
\* the call and the spreadsheets read, in order.
Returned(T, L, loads) == [raised |-> "", ret |-> T, list |-> L, loads |-> loads]

\* lines 242-246 (and 277-281, 311-315, 352-356, 387-391, 420-424)
FilterBy(T, industry_list, loads) ==
    IF industry_list = JNull THEN Returned(T, industry_list, loads)
    ELSE Returned(IsIn(T, AppendInPlace(industry_list, Sentinel).items),
                  AppendInPlace(industry_list, Sentinel), loads)

\* lines 233-240
FundamentalsTable(F) ==
    LET data_df == get_adamodar_file(F, "DollarUS")
        Cell(r, c) == FillNaAsInt(RoundThousands(data_df[r][c]))
    IN [r \in DOMAIN data_df |->
          ("Revenue" :> Cell(r, "Revenues ($ millions)")) @@
          ("Gross Profit" :> Cell(r, "Gross Profit ($ millions)")) @@
          ("EBITDA" :> Cell(r, "EBITDA ($ millions)")) @@
          ("EBIT" :> Cell(r, "EBIT (Operating Income) ($ millions)")) @@
          ("Net Income" :> Cell(r, "Net Income ( $ millions)"))]

get_ind_fundamentals(F, industry_list) ==
    FilterBy(FundamentalsTable(F), industry_list, <<"DollarUS">>)

\* lines 270-271: np.round(ratio * Revenue * 365 / cogs) on aligned rows
DaysCell(ratio, row) ==
    IF ratio = NaN \/ row = NaN THEN NaN
    ELSE IF row["Revenue"] = NaN \/ row["Gross Profit"] = NaN THEN NaN
    ELSE LET revenue == row["Revenue"].i
             cogs == revenue - row["Gross Profit"].i
             numerator == ratio.f * revenue * 365
         IN IF cogs # 0 THEN JFloat(100 * RoundDiv(numerator, 100 * cogs))
            ELSE IF numerator = 0 THEN NaN
            ELSE Inf(SignOfQuotient(numerator, 1))

\* lines 263-275
EfficiencyTable(F, fundamentals_df) ==
    LET data_df == get_adamodar_file(F, "wcdata")
        employee == Reindex(Column(get_adamodar_file(F, "Employee"),
                                   "Revenues per Employee  ($)"), DOMAIN data_df)
        basis == Reindex(fundamentals_df, DOMAIN data_df)
    IN [r \in DOMAIN data_df |->
          ("DSO" :> RoundDays(data_df[r]["Acc Rec/ Sales"])) @@
          ("DSI" :> DaysCell(data_df[r]["Inventory/Sales"], basis[r])) @@
          ("DPO" :> DaysCell(data_df[r]["Acc Pay/ Sales"], basis[r])) @@
          ("Revenues per Employee  ($)" :> employee[r])]

get_ind_efficiency(F, industry_list) ==
    LET f == get_ind_fundamentals(F, industry_list)
    IN FilterBy(EfficiencyTable(F, f.ret), f.list, <<"wcdata">> \o f.loads \o <<"Employee">>)

\* lines 298-309
ProfitabilityTable(F) ==
    LET data_df == get_adamodar_file(F, "margin")
        idx == DOMAIN data_df
        eva == get_adamodar_file(F, "EVA")
        Margin100(r, c) == FillNaAsInt(RoundPercent(data_df[r][c]))
        Eva100(c) == Reindex([r \in DOMAIN eva |-> FillNaAsInt(RoundPercent(eva[r][c]))], idx)
        Eva1000 == Reindex([r \in DOMAIN eva |->
                      FillNaAsInt(RoundThousands(eva[r]["EVA (US $ millions)"]))], idx)
    IN [r \in idx |->
          ("Gross Margin" :> Margin100(r, "Gross Margin")) @@
          ("Net Margin" :> Margin100(r, "Net Margin")) @@
          ("EBIT Margin" :> Margin100(r, "After-tax Lease & R&D adj Margin")) @@
          ("EBITDA_Margin" :> Margin100(r, "EBITDA/Sales")) @@
          ("R&D Margin" :> Margin100(r, "R&D/Sales")) @@
          ("SG&A Margin" :> Margin100(r, "SG&A/ Sales")) @@
          ("ROE" :> Eva100("ROE")[r]) @@
          ("(ROE - COE)" :> Eva100("(ROE - COE)")[r]) @@
          ("ROC" :> Eva100("ROC")[r]) @@
          ("(ROC - WACC)" :> Eva100("(ROC - WACC)")[r]) @@
          ("EVA" :> Eva1000[r])]

get_ind_profitability(F, industry_list) ==
    FilterBy(ProfitabilityTable(F), industry_list, <<"margin", "EVA">>)

\* lines 332-350
MultiplesTable(F) ==
    LET data_df == get_adamodar_file(F, "pbvdata")
        idx == DOMAIN data_df
        From(file, c) == Reindex(Column(get_adamodar_file(F, file), c), idx)
    IN [r \in idx |->
          ("PBV" :> Round1(data_df[r]["PBV"])) @@
          ("EV/ Invested Capital" :> Round1(data_df[r]["EV/ Invested Capital"])) @@
          ("Current PE" :> Round1(From("pedata", "Current PE")[r])) @@
          ("Trailing PE" :> Round1(From("pedata", "Trailing PE")[r])) @@
          ("Forward PE" :> Round1(From("pedata", "Forward PE")[r])) @@
          ("Price/Sales" :> Round1(From("psdata", "Price/Sales")[r])) @@
          ("EV/Sales" :> Round1(From("psdata", "EV/Sales")[r])) @@
          ("EV/EBITDA" :> Round1(From("vebitda", PositiveEbitda("EV/EBITDA"))[r])) @@
          ("EV/EBIT" :> Round1(From("vebitda", PositiveEbitda("EV/EBIT"))[r]))]

get_ind_multiples(F, industry_list) ==
    FilterBy(MultiplesTable(F), industry_list, <<"pbvdata", "pedata", "psdata", "vebitda">>)

\* lines 373-385
RiskTable(F) ==
    LET data_df == get_adamodar_file(F, "betas")
        idx == DOMAIN data_df
        From(file, c) == Reindex(Column(get_adamodar_file(F, file), c), idx)
    IN [r \in idx |->
          ("Number of firms" :> data_df[r]["Number of firms"]) @@
          ("D/E" :> RoundPercent(data_df[r]["D/E Ratio"])) @@
          ("Beta" :> Round2(data_df[r]["Average Unlevered Beta"])) @@
          ("Cost of Equity" :> RoundPercent1(From("wacc", "Cost of Equity")[r])) @@
          ("After-tax Cost of Debt" :> RoundPercent1(From("wacc", "After-tax Cost of Debt")[r])) @@
          ("Cost of Capital" :> RoundPercent1(From("wacc", "Cost of Capital")[r])) @@
          ("% of Money Losing firms" :>
              From("pedata", "% of Money Losing firms (Trailing)")[r])]

get_ind_risk(F, industry_list) ==
    FilterBy(RiskTable(F), industry_list, <<"betas", "wacc", "pedata">>)

\* lines 408-418
DemandTable(F) ==
    LET data_df == get_adamodar_file(F, "histgr")
        Cell(r, c) == FillNaAsInt(RoundPercent(data_df[r][c]))
    IN [r \in DOMAIN data_df |->
          ("Net Income CAGR (past 5y)" :> Cell(r, "CAGR in Net Income- Last 5 years")) @@
          ("Revenue CAGR (past 5y)" :> Cell(r, "CAGR in Revenues- Last 5 years")) @@
          ("Revenue CAGR (next 2y)" :> Cell(r, "Expected Growth in Revenues - Next 2 years")) @@
          ("Revenue CAGR (next 5y)" :> Cell(r, "Expected Growth in Revenues - Next 5 years"))]

get_ind_demand(F, industry_list) ==
    FilterBy(DemandTable(F), industry_list, <<"histgr">>)

----------------------------------------------------------------------------
(* adamodaran_utils.py and industry_info.py: resolving a ticker *)

OTCPK == <<"O", "T", "C", "P", "K">>

\* str.split(sep)
RECURSIVE Split(_, _)
Split(s, sep) ==
    IF \A i \in 1..Len(s) : s[i] # sep THEN <<s>>
    ELSE LET i == CHOOSE k \in 1..Len(s) : s[k] = sep /\ \A j \in 1..(k - 1) : s[j] # sep
         IN <<SubSeq(s, 1, i - 1)>> \o Split(SubSeq(s, i + 1, Len(s)), sep)

\* lines 25-27: the sheet "By country" of indname.xlsx
get_raw_industry_df(F) == F["indname"]

\* lines 174-201 with the default arguments: no pink sheets, United States only
get_industry_df(F) ==
    LET rawdf == get_raw_industry_df(F)
        subdf == SelectSeq(rawdf, LAMBDA row : ~Contains(row["Exchange:Ticker"], OTCPK))
        industry_df == SelectSeq(subdf, LAMBDA row : row["Country"] = "United States")
    IN [i \in 1..Len(industry_df) |->
          [company |-> industry_df[i]["Company Name"],
           industry |-> industry_df[i]["Industry Group"],
           sector |-> industry_df[i]["Primary Sector"],
           Country |-> industry_df[i]["Country"],
           exchange |-> Split(industry_df[i]["Exchange:Ticker"], ":")[1],
           ticker |-> Split(industry_df[i]["Exchange:Ticker"], ":")[2]]]

\* industry_info.py lines 26-43: _safe_get without a cast
_safe_get(df, idx, col) ==
    IF idx \notin DOMAIN df THEN JNull
    ELSE IF col \notin DOMAIN df[idx] THEN JNull
    ELSE IF df[idx][col] = NaN THEN JNull
    ELSE df[idx][col]

\* _safe_get with cast=lambda v: int(np.int64(v)); a failing cast keeps the value
_safe_get_int(df, idx, col) ==
    LET val == _safe_get(df, idx, col)
    IN IF val = JNull THEN JNull
       ELSE IF val.t = "float" THEN JInt(TruncDiv(val.f, 100))
       ELSE val

\* matched.empty without the test: a table is never taken to be empty.
EmptyNever(matched) == FALSE
\* line 61: matched.empty
Empty(matched) == matched = <<>>

\* lines 66-106: the record built from the six topic tables of one industry
industry_info(F, company_name, indname) ==
    LET demand_df == get_ind_demand(F, JList(<<indname>>)).ret
        fundamentals_df == get_ind_fundamentals(F, JList(<<indname>>)).ret
        profitability_df == get_ind_profitability(F, JList(<<indname>>)).ret
        efficiency_df == get_ind_efficiency(F, JList(<<indname>>)).ret
        risk_df == get_ind_risk(F, JList(<<indname>>)).ret
        multiples_df == get_ind_multiples(F, JList(<<indname>>)).ret
    IN [company_name |-> company_name,
        industry_name |-> indname,
        market_size |->
           [marketsize |-> _safe_get(fundamentals_df, indname, "Revenue"),
            past_cagr_5y |-> _safe_get(demand_df, indname, "Revenue CAGR (past 5y)"),
            next_cagr_2y |-> _safe_get(demand_df, indname, "Revenue CAGR (next 2y)"),
            next_cagr_5y |-> _safe_get(demand_df, indname, "Revenue CAGR (next 5y)")],
        profitability |->
           [gross_margin |-> _safe_get(profitability_df, indname, "Gross Margin"),
            ebit_margin |-> _safe_get(profitability_df, indname, "EBIT Margin"),
            net_margin |-> _safe_get(profitability_df, indname, "Net Margin"),
            roc |-> _safe_get(profitability_df, indname, "ROC"),
            roe |-> _safe_get(profitability_df, indname, "ROE")],
        efficiency |->
           [receivable_days |-> _safe_get_int(efficiency_df, indname, "DSO"),
            inventory_days |-> _safe_get_int(efficiency_df, indname, "DSI"),
            payable_days |-> _safe_get_int(efficiency_df, indname, "DPO")],
        risk |->
           [number_of_firms |-> _safe_get(risk_df, indname, "Number of firms"),
            beta |-> _safe_get(risk_df, indname, "Beta"),
            de |-> _safe_get(risk_df, indname, "D/E"),
            cost_of_equity |-> _safe_get(risk_df, indname, "Cost of Equity")],
        multiples |->
           [current_pe |-> _safe_get(multiples_df, indname, "Current PE"),
            forward_pe |-> _safe_get(multiples_df, indname, "Forward PE"),
            ev_ebitda |-> _safe_get(multiples_df, indname, "EV/EBITDA"),
            pbv |-> _safe_get(multiples_df, indname, "PBV"),
            ev_sales |-> _safe_get(multiples_df, indname, "EV/Sales")]]

\* The spreadsheets get_industry_info reads after the master sheet, in order.
TopicLoads ==
    <<"histgr", "DollarUS", "margin", "EVA", "wcdata", "DollarUS", "Employee",
      "betas", "wacc", "pedata", "pbvdata", "pedata", "psdata", "vebitda">>

\* An exception leaving get_industry_info: its type and its argument.
Failed(exc, arg, loads) == [raised |-> exc, arg |-> arg, ret |-> JNull, loads |-> loads]

\* industry_info.py lines 46-108
get_industry_info(F, company_ticker) ==
    IF "indname" \notin DOMAIN F THEN Failed("FileNotFoundError", <<>>, <<>>)
    ELSE LET matched == SelectSeq(get_industry_df(F),
                                  LAMBDA row : row.ticker = company_ticker)
         IN IF Empty(matched) THEN Failed("ValueError", company_ticker, <<"indname">>)
            ELSE IF matched = <<>> THEN Failed("IndexError", <<>>, <<"indname">>)
            ELSE [raised |-> "", arg |-> <<>>,
                  ret |-> industry_info(F, matched[1].company, matched[1].industry),
                  loads |-> <<"indname">> \o TopicLoads]

----------------------------------------------------------------------------
(* app.py: one run of the dashboard script for a submitted ticker *)

NoPage == [kind |-> "none"]

\* The av_key of line 64.
AppKey == JStr("YD9VPN2U7FKOT5VT")

\* The string whose characters are q.
Text(q) == CHOOSE s \in {"AB", "CD"} : Chars(s) = q

\* lines 209-214: what the except clauses render
ErrorPage(info) ==
    IF info.raised = "ValueError"
    THEN [kind |-> "error", error |-> "Error", about |-> info.arg,
          info |-> "Please enter a valid company ticker and try again."]
    ELSE [kind |-> "error", error |-> "An unexpected error occurred", about |-> info.arg,
          info |-> "Please check your input and try again."]

\* A table cell: the text a format makes of a value; None stays None.
Shown(fmt, v) == IF v = JNull THEN JNull ELSE [t |-> "cell", fmt |-> fmt, of |-> v]

\* lines 81-92: "$<n>B", the industry's revenue being in billions
ms_display(ms) == Shown("$B", ms)

\* lines 70-80: "$<n>B" of the company's revenue in dollars over 1e9
comp_rev_display(comp_rev) == Shown("$/1e9B", comp_rev)

\* lines 117-127
fmt_pct(x) == Shown("fmt_pct", x)

\* lines 94-108: the columns of df_market after "Metric"
df_market(industry_info_, company_metrics) ==
    LET market_data == industry_info_.market_size
    IN [industry |-> <<ms_display(market_data.marketsize),
                       Shown("%", market_data.past_cagr_5y),
                       Shown("%", market_data.next_cagr_2y),
                       Shown("%", market_data.next_cagr_5y)>>,
        company |-> <<comp_rev_display(Get(company_metrics.kv, "revenue")),
                      Shown("int(*100)%", Get(company_metrics.kv, "rev cagr 5y")),
                      JNull,
                      JNull>>]

\* lines 129-151: the columns of df_profit
df_profit(industry_info_, company_metrics) ==
    LET profit_data == industry_info_.profitability
    IN [industry |-> <<Shown("%", profit_data.gross_margin),
                       Shown("%", profit_data.ebit_margin),
                       Shown("%", profit_data.net_margin),
                       Shown("%", profit_data.roc),
                       Shown("%", profit_data.roe)>>,
        company |-> <<fmt_pct(Get(company_metrics.kv, "gross margin")),
                      fmt_pct(Get(company_metrics.kv, "ebit margin")),
                      fmt_pct(Get(company_metrics.kv, "net margin")),
                      fmt_pct(Get(company_metrics.kv, "return on capital")),
                      fmt_pct(Get(company_metrics.kv, "return on equity"))>>]

\* lines 160-177: the columns of df_eff
df_eff(industry_info_, company_metrics) ==
    LET eff_data == industry_info_.efficiency
    IN [industry |-> <<Shown("str", eff_data.receivable_days),
                       Shown("str", eff_data.inventory_days),
                       Shown("str", eff_data.payable_days)>>,
        company |-> <<Shown("str", Get(company_metrics.kv, "receivable days")),
                      Shown("str", Get(company_metrics.kv, "inventory days")),
                      Shown("str", Get(company_metrics.kv, "payable days"))>>]

\* lines 183-201: the columns of df_risk
df_risk(industry_info_, company_metrics) ==
    LET risk_data == industry_info_.risk
    IN [industry |-> <<Shown("str", risk_data.number_of_firms),
                       Shown("str", risk_data.beta),
                       Shown("%", risk_data.de),
                       Shown("%", risk_data.cost_of_equity)>>,
        company |-> <<JNull,
                      Shown("str", Get(company_metrics.kv, "beta")),
                      Shown("int(round(*100))%", Get(company_metrics.kv, "debt to equity ratio")),
                      JNull>>]

\* lines 54-202: the four tables of the 2x2 grid
Tables(industry_info_, company_metrics) ==
    [df_market |-> df_market(industry_info_, company_metrics),
     df_profit |-> df_profit(industry_info_, company_metrics),
     df_eff |-> df_eff(industry_info_, company_metrics),
     df_risk |-> df_risk(industry_info_, company_metrics)]

\* The banner and the tables for the company metrics cm, with or without
\* the warning of line 66.
Rendered(info, warning, cm) ==
    [kind |-> "tables", company_name |-> info.ret.company_name,
     industry_name |-> info.ret.industry_name, industry_info |-> info.ret,
     warning |-> warning,
     company_metrics |-> cm,
     tables |-> Tables(info.ret, cm)]

\* Without the try of lines 63-67: an exception of compute_financial_metrics
\* reaches the except clauses of lines 209-214.
TablesPageUncaught(info, m) ==
    IF m.raised # "" THEN ErrorPage([raised |-> m.raised, arg |-> <<>>])
    ELSE Rendered(info, FALSE, m.ret)
\* lines 46-206: the success banner and the tables, from the industry record
\* and the company metrics ({} with a warning when computing them raised)
TablesPage(info, m) ==
    IF m.raised # "" THEN Rendered(info, TRUE, JObj(EmptyDict))
    ELSE Rendered(info, FALSE, m.ret)

\* line 216
StartPage == [kind |-> "start", info |-> "Enter a company ticker in the sidebar to get started!"]

----------------------------------------------------------------------------
(* The industry side as a state machine: a caller hands one list object to *)
(* topic accessors, call after call, and the dashboard is run for tickers. *)

MaxTopicCalls == 2

CallerLists ==
    {JNull, JList(<<>>), JList(<<"Shoe">>), JList(<<"Apparel", "Shoe">>),
     JList(<<TotalMarket>>)}

TickerInputs == {"ab", " cd ", "ex", "ke", "xx", "  "}

\* A cell of the spreadsheets, a float in hundredths.
BaseValue(file, r, c) ==
    CASE file = "DollarUS" /\ c = "Revenues ($ millions)" ->
            JFloat(CASE r = "Apparel" -> 2540000 [] r = "Shoe" -> 150000 [] OTHER -> 990000000)
      [] file = "DollarUS" /\ c = "Gross Profit ($ millions)" ->
            JFloat(CASE r = "Apparel" -> 1000000 [] r = "Shoe" -> 250000 [] OTHER -> 400000000)
      [] file = "DollarUS" -> JFloat(50000)
      [] file = "Employee" -> JFloat(50000000)
      [] file = "betas" /\ c = "Number of firms" ->
            JFloat(CASE r = "Apparel" -> 4200 [] r = "Shoe" -> 1700 [] OTHER -> 600000)
      [] file \in {"pbvdata", "pedata", "psdata", "vebitda"} ->
            JFloat(CASE r = "Apparel" -> 1234 [] r = "Shoe" -> 725 [] OTHER -> 2000)
      [] OTHER -> JFloat(CASE r = "Apparel" -> 35 [] r = "Shoe" -> 12 [] OTHER -> 50)

\* One spreadsheet: its rows, with the cells of the row "Shoe" empty when
\* the sheet has a hole.
Sheet(file, rows, hole) ==
    [r \in rows |-> [c \in ColumnsOf(file) |->
                        IF hole /\ r = "Shoe" THEN NaN ELSE BaseValue(file, r, c)]]

MasterRow(company, exchange_ticker, industry, country) ==
    ("Company Name" :> company) @@ ("Exchange:Ticker" :> exchange_ticker) @@
    ("Industry Group" :> industry) @@ ("Primary Sector" :> "Consumer Discretionary") @@
    ("Country" :> country) @@ ("Broad Group" :> "Consumer") @@ ("Sub Group" :> "Goods")

MasterSheet ==
    <<MasterRow("Crocs", <<"N", ":", "A", "B">>, "Shoe", "United States"),
      MasterRow("Gap", <<"Q", ":", "C", "D">>, "Apparel", "United States"),
      MasterRow("Pink", <<"O", "T", "C", "P", "K", ":", "E", "X">>, "Shoe", "United States"),
      MasterRow("Kent", <<"L", ":", "K", "E">>, "Apparel", "United Kingdom")>>

HoleFiles == {"none", "DollarUS", "EVA", "betas", "pbvdata", "histgr"}
ShortFiles == {"none", "DollarUS", "EVA"}

\* The files on disk: every topic spreadsheet, one of them possibly with a
\* hole, one of them possibly without the row "Apparel", all of them with or
\* without the total-market row; and the master sheet, unless it is missing.
Workbook(total, hole, short, master) ==
    LET rows(file) == (IF total THEN Industries ELSE Industries \ {TotalMarket})
                         \ (IF file = short THEN {"Apparel"} ELSE {})
        topics == [file \in Spreadsheets |-> Sheet(file, rows(file), file = hole)]
    IN IF master THEN topics @@ ("indname" :> MasterSheet) ELSE topics

InitIndustry ==
    /\ fs = <<>> /\ dir = "missing" /\ envKey = JNull /\ version = 0
    /\ cur = Idle /\ prev = Idle /\ calls = 0
    /\ stmt = JNull /\ field = "" /\ out = Pending
    /\ \E total \in BOOLEAN, hole \in HoleFiles, short \in ShortFiles, master \in BOOLEAN :
          /\ ~master => total /\ hole = "none" /\ short = "none"
          /\ files = Workbook(total, hole, short, master)
    /\ shared_list \in CallerLists
    /\ page = NoPage
    /\ procs = <<>>

\* A topic accessor returns r to a caller that passed it shared_list.
TopicCall(fn, r) ==
    /\ calls < MaxTopicCalls
    /\ shared_list' = r.list
    /\ prev' = cur
    /\ cur' = [fn |-> fn, industry_list |-> shared_list, raised |-> r.raised,
               ret |-> r.ret, loads |-> r.loads]
    /\ calls' = calls + 1
    /\ UNCHANGED <<fs, dir, envKey, version, stmt, field, out, files, page, procs>>

GetIndFundamentals ==
    \E r \in {get_ind_fundamentals(files, shared_list)} : TopicCall("get_ind_fundamentals", r)

GetIndEfficiency ==
    \E r \in {get_ind_efficiency(files, shared_list)} : TopicCall("get_ind_efficiency", r)

GetIndProfitability ==
    \E r \in {get_ind_profitability(files, shared_list)} : TopicCall("get_ind_profitability", r)

GetIndMultiples ==
    \E r \in {get_ind_multiples(files, shared_list)} : TopicCall("get_ind_multiples", r)

GetIndRisk ==
    \E r \in {get_ind_risk(files, shared_list)} : TopicCall("get_ind_risk", r)

GetIndDemand ==
    \E r \in {get_ind_demand(files, shared_list)} : TopicCall("get_ind_demand", r)

\* What one run of the script did: the exception get_industry_info raised
\* and the spreadsheets it read, the exception compute_financial_metrics
\* raised and the requests it made.
AppRun(ticker, raised, loads, metrics_raised, reqs) ==
    [fn |-> "app", ticker |-> ticker, raised |-> raised, loads |-> loads,
     metrics_raised |-> metrics_raised, reqs |-> reqs]

\* app.py lines 22-23 and 39-216: the script runs for the submitted input.
Dashboard ==
    /\ calls < MaxTopicCalls
    /\ \E input \in TickerInputs :
          \E ticker \in {Upper(Strip(Chars(input)))} :
             IF ticker = <<>>
             THEN /\ page' = StartPage
                  /\ cur' = AppRun(ticker, "", <<>>, "", <<>>)
                  /\ UNCHANGED <<fs, dir>>
             ELSE \E info \in {get_industry_info(files, ticker)} :
                     IF info.raised # ""
                     THEN /\ page' = ErrorPage(info)
                          /\ cur' = AppRun(ticker, info.raised, info.loads, "", <<>>)
                          /\ UNCHANGED <<fs, dir>>
                     ELSE \E m \in {compute_financial_metrics(fs, dir, Text(ticker), AppKey,
                                                              TRUE, Writable(dir))} :
                             /\ page' = TablesPage(info, m)
                             /\ cur' = AppRun(ticker, "", info.loads, m.raised, m.reqs)
                             /\ fs' = m.fs
                             /\ dir' = m.dir
    /\ prev' = cur
    /\ calls' = calls + 1
    /\ UNCHANGED <<envKey, version, stmt, field, out, files, shared_list, procs>>

NextIndustry ==
    \/ GetIndFundamentals \/ GetIndEfficiency \/ GetIndProfitability
    \/ GetIndMultiples \/ GetIndRisk \/ GetIndDemand \/ Dashboard

SpecIndustry == InitIndustry /\ [][NextIndustry]_vars

----------------------------------------------------------------------------
(* Claims about the industry tables and the dashboard *)

\* The dashboard script was the last thing to run, for this ticker.
Submitted(ticker) == cur.fn = "app" /\ cur.ticker = ticker

SubmittedTickers == {Upper(Strip(Chars(input))) : input \in TickerInputs} \ {<<>>}

\* Some company of the industry table (United States, not a pink sheet) is
\* listed as "<exchange>:<ticker>".
Listed(ticker) ==
    \E i \in DOMAIN files["indname"] :
       LET row == files["indname"][i]
       IN /\ row["Country"] = "United States"
          /\ ~Contains(row["Exchange:Ticker"], OTCPK)
          /\ EndsWithStr(row["Exchange:Ticker"], <<":">> \o ticker)

InvalidTickerMessage == "Please enter a valid company ticker and try again."

\* C13: a ticker that matches no row of the industry table makes
\* get_industry_info raise ValueError with the ticker in its message, after
\* reading the industry table only (no topic spreadsheet), and the dashboard
\* renders the invalid-ticker message for it, not the unexpected-error one.
C13_NotFoundIsDistinct ==
    \A ticker \in SubmittedTickers :
       Submitted(ticker) /\ "indname" \in DOMAIN files /\ ~Listed(ticker) =>
          /\ cur.raised = "ValueError"
          /\ cur.loads = <<"indname">>
          /\ page.kind = "error"
          /\ page.error = "Error"
          /\ page.about = ticker
          /\ page.info = InvalidTickerMessage

\* The pink-sheet ticker EX was submitted after a topic accessor had run,
\* and the dashboard shows the invalid-ticker message.
C13_Witness ==
    /\ Submitted(<<"E", "X">>)
    /\ prev.fn = "get_ind_risk"
    /\ "indname" \in DOMAIN files
    /\ page.kind = "error"
    /\ page.info = InvalidTickerMessage

\* The spreadsheet whose index a topic accessor's table has.
SourceOf(fn) ==
    CASE fn = "get_ind_fundamentals" -> "DollarUS"
      [] fn = "get_ind_efficiency" -> "wcdata"
      [] fn = "get_ind_profitability" -> "margin"
      [] fn = "get_ind_multiples" -> "pbvdata"
      [] fn = "get_ind_risk" -> "betas"
      [] fn = "get_ind_demand" -> "histgr"

Accessors == {"get_ind_fundamentals", "get_ind_efficiency", "get_ind_profitability",
              "get_ind_multiples", "get_ind_risk", "get_ind_demand"}

\* The last call was a topic accessor given an explicit list.
Filtered == cur.fn \in Accessors /\ cur.industry_list # JNull

\* C14 as stated: a topic accessor called with an explicit industry list
\* returns a table that has the row "Total Market (without financials)"
\* whenever its source spreadsheet has that row.
C14_AsStated ==
    Filtered /\ TotalMarket \in DOMAIN files[SourceOf(cur.fn)] =>
       TotalMarket \in DOMAIN cur.ret

\* This step is a call of a topic accessor on the caller's list.
TopicStep == calls' = calls + 1 /\ cur'.fn \in Accessors

\* How many elements one call of the accessor appends.
Appended(fn) == IF fn = "get_ind_efficiency" THEN 2 ELSE 1

Sentinels(n) == [i \in 1..n |-> Sentinel]

\* The last two calls were topic accessors on the caller's (explicit) list.
TwoCalls == cur.fn \in Accessors /\ prev.fn \in Accessors /\ shared_list # JNull

\* C15: a topic accessor given an explicit list appends its sentinel to that
\* very list (once; get_ind_efficiency twice) and leaves the earlier elements
\* as they were, so that after two calls the list is at least two elements
\* longer than before the first; given None, it leaves the caller with None.
C15_ListGrowsInPlace ==
    [][TopicStep =>
          /\ shared_list = JNull => shared_list' = JNull
          /\ shared_list # JNull =>
                /\ shared_list' # JNull
                /\ shared_list'.items = shared_list.items \o Sentinels(Appended(cur'.fn))
          /\ TwoCalls' =>
                /\ Len(shared_list'.items) >= Len(prev'.industry_list.items) + 2
                /\ SubSeq(shared_list'.items, 1, Len(prev'.industry_list.items))
                      = prev'.industry_list.items]_vars

\* The list ["Shoe"] went through get_ind_demand and then get_ind_efficiency
\* and now has three sentinels after its one industry.
C15_Witness ==
    /\ calls = 2
    /\ prev.fn = "get_ind_demand"
    /\ cur.fn = "get_ind_efficiency"
    /\ prev.industry_list = JList(<<"Shoe">>)
    /\ shared_list = JList(<<"Shoe", Sentinel, Sentinel, Sentinel>>)

\* Some cell of the table is null (NaN).
HasNull(T) == \E r \in DOMAIN T : \E c \in DOMAIN T[r] : T[r][c] = NaN

ZeroFilled == {"get_ind_fundamentals", "get_ind_profitability", "get_ind_demand"}

\* C16 as stated: no cell of a fundamentals, profitability or demand table is
\* ever null, and a risk or multiples table keeps a null for each returned
\* row whose cells are missing in the accessor's source spreadsheet.
C16_AsStated ==
    /\ cur.fn \in ZeroFilled => ~HasNull(cur.ret)
    /\ cur.fn \in {"get_ind_risk", "get_ind_multiples"} =>
          \A r \in DOMAIN cur.ret :
             (\A c \in ColumnsOf(SourceOf(cur.fn)) : files[SourceOf(cur.fn)][r][c] = NaN)
                => \E c \in DOMAIN cur.ret[r] : cur.ret[r][c] = NaN

MarginColumns ==
    {"Gross Margin", "Net Margin", "EBIT Margin", "EBITDA_Margin", "R&D Margin", "SG&A Margin"}

\* C16: an empty cell of a source spreadsheet never shows as null in the
\* fundamentals and demand tables, nor in the profitability table, whose
\* only null cells are the columns taken from the EVA spreadsheet in rows
\* that spreadsheet does not have; a risk or multiples table keeps a null
\* for each returned row whose source cells are empty.
C16_MissingCellsZeroFilled ==
    /\ cur.fn \in {"get_ind_fundamentals", "get_ind_demand"} => ~HasNull(cur.ret)
    /\ cur.fn = "get_ind_profitability" =>
          \A r \in DOMAIN cur.ret : \A c \in DOMAIN cur.ret[r] :
             cur.ret[r][c] = NaN => c \notin MarginColumns /\ r \notin DOMAIN files["EVA"]
    /\ cur.fn \in {"get_ind_risk", "get_ind_multiples"} =>
          \A r \in DOMAIN cur.ret :
             (\A c \in ColumnsOf(SourceOf(cur.fn)) : files[SourceOf(cur.fn)][r][c] = NaN)
                => \E c \in DOMAIN cur.ret[r] : cur.ret[r][c] = NaN

\* The EVA spreadsheet has empty cells in its row "Shoe" and the
\* profitability table returned has zeros there.
C16_Witness ==
    /\ cur.fn = "get_ind_profitability"
    /\ files["EVA"]["Shoe"]["ROE"] = NaN
    /\ "Shoe" \in DOMAIN cur.ret
    /\ cur.ret["Shoe"]["ROE"] = JInt(0)
    /\ cur.ret["Shoe"]["Gross Margin"] = JInt(12)

----------------------------------------------------------------------------
(* Claims about _convert_num and the overview's normalisation *)

Converted == out # Pending

\* The characters of the string under test (none for null).
Given == IF stmt = JNull THEN <<>> ELSE PyStr(stmt)

Blank(q) == \A i \in 1..Len(q) : q[i] = " "
NoneWord(q) == Lower(Strip(q)) = <<"n", "o", "n", "e">>

\* The string read as an amount: surrounding blanks and thousands
\* separators dropped, a parenthesised amount negated.
Amount(q) ==
    LET bare == RemoveChar(Strip(q), ",")
    IN IF bare # <<>> /\ Head(bare) = "(" /\ bare[Len(bare)] = ")"
       THEN <<"-">> \o SubSeq(bare, 2, Len(bare) - 1)
       ELSE bare

\* C17: _convert_num returns 1234 for "1,234", -500 for "(500)", the float
\* 12.5 for "12.5", and null for null, "", blanks and "None" in any case;
\* an amount that reads as an integer gives that int, otherwise one that
\* reads as a decimal gives that float, and any other string gives null:
\* it never raises.
C17_ConvertNum ==
    Converted =>
       /\ out.t \in {"null", "int", "float"}
       /\ stmt = JStr("1,234") => out = JInt(1234)
       /\ stmt = JStr("(500)") => out = JInt(-500)
       /\ stmt = JStr("12.5") => out = JFloat(1250)
       /\ stmt \in {JNull, JStr(""), JStr("  "), JStr("None"), JStr("NONE"), JStr("none")}
             => out = JNull
       /\ stmt \in {JStr("abc"), JStr("-"), JStr("."), JStr("USD")} => out = JNull
       /\ stmt = JNull \/ Blank(Given) \/ NoneWord(Given) => out = JNull
       /\ ~(stmt = JNull \/ Blank(Given) \/ NoneWord(Given)) =>
             /\ IntOk(Amount(Given)) => out = JInt(IntVal(Amount(Given)))
             /\ ~IntOk(Amount(Given)) /\ FloatOk(Amount(Given))
                   => out = JFloat(FloatVal(Amount(Given)))
             /\ ~IntOk(Amount(Given)) /\ ~FloatOk(Amount(Given)) => out = JNull

\* "(5)" was converted to -5, the parenthesised amount read as negative.
C17_Witness ==
    /\ stmt = JText(<<"(", "5", ")">>)
    /\ out = JInt(-5)

\* A field the normalisation must leave alone: one of the textual fields,
\* or one whose name has "date" or "quarter" in it, whatever the case.
Textual(k) ==
    \/ k \in {"Address", "Description", "AssetType", "Country", "Currency", "Exchange",
              "FiscalYearEnd", "Industry", "Name", "OfficialSite", "Sector", "Symbol", "CIK"}
    \/ Contains(Lower(Chars(k)), <<"d", "a", "t", "e">>)
    \/ Contains(Lower(Chars(k)), <<"q", "u", "a", "r", "t", "e", "r">>)

\* The number a provider's value stands for, null when it stands for none.
NumberOf(v) ==
    CASE v = JStr("12.5") -> JFloat(1250)
      [] v = JStr("1,234") -> JInt(1234)
      [] v = JStr("(500)") -> JInt(-500)
      [] v = JStr("0") -> JInt(0)
      [] OTHER -> JNull

OverviewGiven == stmt.kv["OVERVIEW"].kv

\* C18: on a cache miss the returned overview has the provider's fields and
\* RevCAGR5y, nothing else and nothing less; a textual, date or quarter field
\* has the provider's value; any other field has the number its value stands
\* for, or the provider's value when it stands for none.
C18_OverviewNormalised ==
    Converted =>
       /\ DOMAIN out.kv = DOMAIN OverviewGiven \cup {"RevCAGR5y"}
       /\ "RevCAGR5y" \notin DOMAIN OverviewGiven
       /\ out.kv["RevCAGR5y"].t \in {"null", "float"}
       /\ \A k \in DOMAIN OverviewGiven :
             /\ Textual(k) => out.kv[k] = OverviewGiven[k]
             /\ ~Textual(k) /\ NumberOf(OverviewGiven[k]) # JNull
                   => out.kv[k] = NumberOf(OverviewGiven[k])
             /\ ~Textual(k) /\ NumberOf(OverviewGiven[k]) = JNull
                   => out.kv[k] = OverviewGiven[k]

\* Symbol, DividendDate and LatestQuarter kept "1,234" and "12.5" as they
\* came, Beta became 1234, PERatio 12.5, and the CAGR was computed.
C18_Witness ==
    /\ Converted
    /\ DOMAIN OverviewGiven = OverviewFields
    /\ OverviewGiven["Symbol"] = JStr("1,234")
    /\ OverviewGiven["Name"] = JStr("12.5")
    /\ out.kv["Symbol"] = JStr("1,234")
    /\ out.kv["DividendDate"] = JStr("1,234")
    /\ out.kv["LatestQuarter"] = JStr("12.5")
    /\ out.kv["Beta"] = JInt(1234)
    /\ out.kv["PERatio"] = JFloat(1250)
    /\ out.kv["RevCAGR5y"].t = "float"

----------------------------------------------------------------------------
(* Claims about failing cache writes and concurrent fetches *)

\* The last call was a fetch, with a key, against a cache directory in
\* which nothing can be persisted: it exists and rejects writes, or it does
\* not exist and cannot be created.
FetchedUnpersisted ==
    cur.fn \in Fetches /\ ~NoKey(cur) /\ dir \in {"readonly", "blocked"}

\* C19 as stated: when the fetched payload cannot be persisted (directory
\* missing or unwritable), fetch_company_overview and fetch_company_ttm
\* raise nothing and return the fetched data.
C19_AsStated ==
    FetchedUnpersisted =>
       /\ cur.raised = ""
       /\ cur.ret # JNull
       /\ cur.reqs # <<>>

----------------------------------------------------------------------------
(* Concurrent fetches: several processes run the cached fetch of one       *)
(* (symbol, data type) against the same directory. Path.exists, the reads  *)
(* of read_text, the GET, the truncating open of write_text and its writes *)
(* are separate steps. The text of a payload is a sequence of blocks; a    *)
(* process reads and writes at its own offset.                             *)

NumProcs == 3

Processes == 1..NumProcs

RaceFile == _get_cache_file(SymAB, "income_statement")

\* The data the provider serves at revision v.
Doc(v) == [t |-> "doc", v |-> v]

\* json.dumps(data, indent=2) in blocks: the provider's short note fits in
\* one, a statement takes two.
Blocks(v) == IF Provider("INCOME_STATEMENT", SymAB, v) = ErrorPayload THEN 1 ELSE 2
Block(v, i) == [doc |-> v, part |-> i]
Written(v) == [i \in 1..Blocks(v) |-> Block(v, i)]

\* The zero bytes left where a write landed beyond the end of the file.
Hole == [doc |-> -1, part |-> 0]

\* The text is the blocks of several statements, each block in its place.
Spliced(buf) ==
    /\ Len(buf) = 2
    /\ \A i \in 1..Len(buf) : buf[i] # Hole /\ buf[i].part = i /\ Blocks(buf[i].doc) = 2
    /\ buf[1].doc # buf[2].doc

\* json.loads on the text read (line 34): the document, or JSONDecodeError;
\* a splice of two statements parses or not, depending on where they meet.
JsonLoads(buf) ==
    IF \E v \in 0..MaxVersion : buf = Written(v)
    THEN {[ok |-> TRUE, data |-> Doc(CHOOSE v \in 0..MaxVersion : buf = Written(v))]}
    ELSE IF Spliced(buf)
    THEN {[ok |-> TRUE, data |-> [t |-> "splice", of |-> buf]], [ok |-> FALSE, data |-> JNull]}
    ELSE {[ok |-> FALSE, data |-> JNull]}

\* _load_from_cache without its except clause.
LoadedUncaught(o) ==
    IF o.ok THEN [raised |-> "", data |-> o.data]
    ELSE [raised |-> "JSONDecodeError", data |-> JNull]
\* lines 33-36: what _load_from_cache makes of the outcome of json.loads
Loaded(o) ==
    IF o.ok THEN [raised |-> "", data |-> o.data]
    ELSE [raised |-> "", data |-> JNull]

\* write(fd, block) at offset i - 1 of a file whose content is text
Put(text, i, block) ==
    [k \in 1..(IF Len(text) > i THEN Len(text) ELSE i) |->
        IF k = i THEN block ELSE IF k <= Len(text) THEN text[k] ELSE Hole]

Fetching == [pc |-> "exists", buf |-> <<>>, data |-> JNull, off |-> 0, raised |-> ""]

InitRace ==
    /\ dir = "present" /\ envKey = JNull /\ version = 0
    /\ fs \in {<<>>, (RaceFile :> Written(0))}
    /\ cur = Idle /\ prev = Idle /\ calls = 0
    /\ stmt = JNull /\ field = "" /\ out = Pending
    /\ files = <<>> /\ shared_list = JNull /\ page = NoPage
    /\ procs = [p \in Processes |-> Fetching]

RaceFrame ==
    UNCHANGED <<dir, envKey, version, cur, prev, calls, stmt, field, out,
                files, shared_list, page>>

\* line 32: p.exists()
Exists(p) ==
    /\ procs[p].pc = "exists"
    /\ procs' = [procs EXCEPT ![p].pc = IF RaceFile \in DOMAIN fs THEN "read" ELSE "get"]
    /\ UNCHANGED fs
    /\ RaceFrame

\* line 34: read_text reads the next block, or meets the end of the file and
\* hands the text to json.loads
Read(p) ==
    /\ procs[p].pc = "read"
    /\ IF Len(procs[p].buf) < Len(fs[RaceFile])
       THEN procs' = [procs EXCEPT ![p].buf = Append(@, fs[RaceFile][Len(@) + 1])]
       ELSE \E o \in JsonLoads(procs[p].buf) :
               \E r \in {Loaded(o)} :
                  procs' = [procs EXCEPT
                              ![p].raised = r.raised,
                              ![p].data = r.data,
                              ![p].pc = IF r.raised # "" \/ r.data # JNull THEN "done"
                                        ELSE "get"]
    /\ UNCHANGED fs
    /\ RaceFrame

\* lines 264-266: the request and resp.json()
Request(p) ==
    /\ procs[p].pc = "get"
    /\ procs' = [procs EXCEPT ![p].data = Doc(version), ![p].pc = "open"]
    /\ UNCHANGED fs
    /\ RaceFrame

\* line 42: write_text opens the file for writing, which empties it
Open(p) ==
    /\ procs[p].pc = "open"
    /\ fs' = (RaceFile :> <<>>) @@ fs
    /\ procs' = [procs EXCEPT ![p].off = 0, ![p].pc = "write"]
    /\ RaceFrame

\* line 42: write_text writes its next block and, after the last, closes
Write(p) ==
    /\ procs[p].pc = "write"
    /\ fs' = [fs EXCEPT ![RaceFile] =
                 Put(@, procs[p].off + 1, Block(procs[p].data.v, procs[p].off + 1))]
    /\ procs' = [procs EXCEPT
                   ![p].off = @ + 1,
                   ![p].pc = IF procs[p].off + 1 = Blocks(procs[p].data.v) THEN "done"
                             ELSE "write"]
    /\ RaceFrame

\* The provider publishes another revision while the fetches are under way.
ProviderChangeInRace ==
    /\ version < MaxVersion
    /\ \E p \in Processes : procs[p].pc # "done"
    /\ version' = version + 1
    /\ UNCHANGED <<fs, dir, envKey, cur, prev, calls, stmt, field, out,
                   files, shared_list, page, procs>>

NextRace ==
    \/ \E p \in Processes : Exists(p)
    \/ \E p \in Processes : Read(p)
    \/ \E p \in Processes : Request(p)
    \/ \E p \in Processes : Open(p)
    \/ \E p \in Processes : Write(p)
    \/ ProviderChangeInRace

SpecRace == InitRace /\ [][NextRace]_vars

AllDone == \A p \in Processes : procs[p].pc = "done"

\* Process p fetched from the network and wrote the cache file.
Writer(p) == procs[p].pc = "done" /\ procs[p].off > 0

\* C20 as stated: no process fails; no process returns anything but a
\* payload the provider served; and once all have finished, the cache file
\* holds the complete payload of one of the writers (or, when none wrote,
\* the payload it held from the start).
C20_AsStated ==
    /\ \A p \in Processes :
          /\ procs[p].raised = ""
          /\ procs[p].pc = "done" => procs[p].data.t = "doc"
    /\ AllDone =>
          \/ \E p \in Processes : Writer(p) /\ fs[RaceFile] = Written(procs[p].data.v)
          \/ (\A p \in Processes : ~Writer(p)) /\ fs[RaceFile] = Written(0)

\* C20: no process fails because of the race; what a process returns is a
\* payload the provider served or a text it read from the file and json.loads
\* accepted; and when the provider served one and the same payload
\* throughout, every process returns it and the file holds it in the end.
C20_RaceBenign ==
    /\ \A p \in Processes :
          /\ procs[p].raised = ""
          /\ procs[p].pc = "done" =>
                \/ procs[p].data.t = "doc" /\ procs[p].data.v \in 0..version
                \/ procs[p].data.t = "splice" /\ Spliced(procs[p].data.of)
    /\ AllDone /\ version = 0 =>
          /\ fs[RaceFile] = Written(0)
          /\ \A p \in Processes : procs[p].data = Doc(0)

\* All have finished; one wrote the statement, another the provider's note,
\* and the file is the note followed by the second block of the statement.
C20_Witness ==
    /\ AllDone
    /\ fs[RaceFile] = <<Block(1, 1), Block(0, 2)>>
    /\ \E p, q \in Processes :
          /\ Writer(p) /\ procs[p].data = Doc(0)
          /\ Writer(q) /\ procs[q].data = Doc(1)

----------------------------------------------------------------------------
(* Claims about what the fetches return, request and leave on disk *)

\* A call of fetch_company_ttm that returned.
TtmReturned == cur.fn = "fetch_company_ttm" /\ cur.raised = ""

\* C21 as stated: fetch_company_ttm returns a dict with exactly the keys
\* overview, income_ttm, balance_ttm and cashflow_ttm.
C21_AsStated ==
    TtmReturned =>
        DOMAIN cur.ret.kv = {"overview", "income_ttm", "balance_ttm", "cashflow_ttm"}

\* The debt the ratio is to be taken of, in hundredths: the combined figure
\* when the balance sheet has one, else what there is of the two components.
HundredthsOrZero(v) == IF v = JNull THEN 0 ELSE Hundredths(v)
DebtReported ==
    IF ~Missing(InBalance("shortLongTermDebtTotal"))
    THEN Hundredths(InBalance("shortLongTermDebtTotal"))
    ELSE HundredthsOrZero(InBalance("shortTermDebt"))
         + HundredthsOrZero(InBalance("longTermDebt"))

\* The number x (in hundredths) is n / d to one decimal.
ToOneDecimal(x, n, d) == x % 10 = 0 /\ Abs(x * d - 100 * n) <= 5 * Abs(d)

\* C22: total debt is the combined figure shortLongTermDebtTotal whenever it
\* is non-null (a zero included), otherwise the sum of the short-term and
\* long-term components that are non-null; the debt-to-equity ratio is that
\* total divided by total shareholder equity, to one decimal, and it is null
\* when the combined figure and both components are null.
C22_TotalDebtOverEquity ==
    RatiosDone =>
        LET ratio == out.kv["debt to equity ratio"]
        IN /\ DebtMissing => ratio = JNull
           /\ ~DebtMissing /\ ~NoEquity =>
                 /\ ratio.t = "float"
                 /\ ToOneDecimal(ratio.f, DebtReported,
                                 Hundredths(InBalance("totalShareholderEquity")))

\* No combined figure, short-term debt 10 and long-term debt 20.5 against an
\* equity of 50: the ratio is 0.6.
C22_Witness ==
    /\ RatiosDone
    /\ Missing(InBalance("shortLongTermDebtTotal"))
    /\ InBalance("shortTermDebt") = JInt(10)
    /\ InBalance("longTermDebt") = JFloat(2050)
    /\ InBalance("totalShareholderEquity") = JInt(50)
    /\ out.kv["debt to equity ratio"] = JFloat(60)

\* The denominator of the inventory and payable days, in hundredths: the
\* reported cost of revenue, or revenue less gross profit when none is
\* reported. Meaningful when ~CogsMissing.
CogsReported ==
    IF ~Missing(InIncome("costOfRevenue")) THEN Hundredths(InIncome("costOfRevenue"))
    ELSE Hundredths(InIncome("totalRevenue")) - Hundredths(InIncome("grossProfit"))

\* The integer d is n / den with its fraction cut off (toward zero).
Truncated(d, n, den) ==
    /\ Abs(d) * Abs(den) <= Abs(n)
    /\ Abs(n) < (Abs(d) + 1) * Abs(den)
    /\ d # 0 => ((d > 0) <=> ((n > 0) <=> (den > 0)))

\* The days value v is item / den (both in hundredths) x 365, truncated.
DaysOf(v, item, den) == v.t = "int" /\ Truncated(v.i, 365 * Hundredths(item), den)

\* C23: receivable days are currentNetReceivables / TTM revenue x 365;
\* inventory and payable days are inventory, resp. currentAccountsPayable,
\* / COGS x 365, where COGS is costOfRevenue when that is non-null (a zero
\* included, which leaves the days null) and revenue - gross profit only when
\* it is null; each value is truncated toward zero to an integer.
C23_DaysOnRevenueOrCogs ==
    RatiosDone =>
        /\ ~NoRevenue /\ ~Missing(InBalance("currentNetReceivables")) =>
              DaysOf(out.kv["receivable days"], InBalance("currentNetReceivables"),
                     Hundredths(InIncome("totalRevenue")))
        /\ ~CogsMissing /\ CogsReported # 0 /\ ~Missing(InBalance("inventory")) =>
              DaysOf(out.kv["inventory days"], InBalance("inventory"), CogsReported)
        /\ ~CogsMissing /\ CogsReported # 0 /\ ~Missing(InBalance("currentAccountsPayable")) =>
              DaysOf(out.kv["payable days"], InBalance("currentAccountsPayable"), CogsReported)
        /\ ~CogsMissing /\ CogsReported = 0 =>
              /\ out.kv["inventory days"] = JNull
              /\ out.kv["payable days"] = JNull

\* No cost of revenue reported, revenue 12.5 and gross profit 40: COGS is
\* -27.5, inventory 30 gives -398 days (not -399), payables 12.5 give -165,
\* and receivables 25 on revenue 12.5 give 730.
C23_Witness ==
    /\ RatiosDone
    /\ Missing(InIncome("costOfRevenue"))
    /\ InIncome("totalRevenue") = JFloat(1250)
    /\ InIncome("grossProfit") = JInt(40)
    /\ out.kv["inventory days"] = JInt(-398)
    /\ out.kv["payable days"] = JInt(-165)
    /\ out.kv["receivable days"] = JInt(730)

Statements == DataTypes \ {"overview"}

\* The keys of the records compute_financial_metrics returns.
MetricNames ==
    {"revenue", "gross margin", "ebit margin", "net margin", "receivable days",
     "inventory days", "payable days", "debt to equity ratio", "return on capital",
     "return on equity", "beta", "rev cagr 5y"}

\* The keys that mark a record as derived: a TTM statement, a metrics record,
\* or the growth rate added to the overview.
DerivedKeys == MetricNames \cup {"_ttm_from_quarters", "RevCAGR5y"}

\* The file of (symbol, data type) holds the text of a payload the provider
\* has served for it.
HoldsPayload(symbol, d) ==
    \E v \in 0..version :
        fs[_get_cache_file(symbol, d)].doc = Dumps(Provider(FuncOf(d), symbol, v))

\* Every file is the file of an upper-cased ticker and a data type, and a
\* parseable statement file holds a payload as it was received.
OneFilePerPair ==
    /\ DOMAIN fs \subseteq FileNames
    /\ \A t \in Tickers, d \in Statements :
          Parseable(fs, _get_cache_file(SymbolOf(t), d)) => HoldsPayload(SymbolOf(t), d)

\* C24 as stated: at most one file per (upper-cased ticker, data type); the
\* statement files hold the provider's payloads as received; and no file
\* holds a TTM statement or a derived metric.
C24_AsStated ==
    /\ OneFilePerPair
    /\ \A p \in DOMAIN fs :
          Parseable(fs, p) /\ fs[p].doc.j = "object" =>
              DOMAIN fs[p].doc.kv \cap DerivedKeys = {}

\* C24: at most one file per (upper-cased ticker, data type); the statement
\* files hold the provider's payloads as received; no file holds a TTM
\* statement or a record of ratios; the overview file holds the provider's
\* overview with its numeric strings converted and one derived figure added,
\* the revenue growth rate RevCAGR5y.
C24_CacheHoldsPayloads ==
    /\ OneFilePerPair
    /\ \A t \in Tickers :
          LET p == _get_cache_file(SymbolOf(t), "overview")
          IN Parseable(fs, p) =>
                /\ \E v \in 0..version :
                      NormalizedOverview(Loads(fs[p].doc), Provider("OVERVIEW", SymbolOf(t), v))
                /\ DOMAIN fs[p].doc.kv \cap DerivedKeys = {"RevCAGR5y"}
    /\ \A t \in Tickers, d \in Statements :
          LET p == _get_cache_file(SymbolOf(t), d)
          IN Parseable(fs, p) /\ fs[p].doc.j = "object" =>
                DOMAIN fs[p].doc.kv \cap DerivedKeys = {}

\* compute_financial_metrics has returned its ratios for AB and the four
\* files of AB are on disk, the overview with a growth rate of 0.04.
C24_Witness ==
    /\ cur.fn = "compute_financial_metrics" /\ cur.raised = ""
    /\ cur.symbol = SymAB
    /\ cur.ret.kv["gross margin"].t \in {"null", "float"}
    /\ \A d \in DataTypes : Parseable(fs, _get_cache_file(SymAB, d))
    /\ HoldsPayload(SymAB, "income_statement")
    /\ Loads(fs[_get_cache_file(SymAB, "overview")].doc).kv["RevCAGR5y"] = JFloat(4)

Endpoints == {"INCOME_STATEMENT", "BALANCE_SHEET", "CASH_FLOW", "OVERVIEW"}

\* The (symbol, endpoint) pairs call c requested, and whether it requested
\* one of them twice.
PairsOf(c) == {<<c.reqs[i].symbol, c.reqs[i].function>> : i \in 1..Len(c.reqs)}
NoRepeat(c) == Cardinality(PairsOf(c)) = Len(c.reqs)

\* Call c requested each of the four endpoints for its symbol, once.
OncePerEndpoint(c) ==
    /\ Len(c.reqs) = 4
    /\ PairsOf(c) = {<<c.symbol, e>> : e \in Endpoints}

\* The step is a call with caching enabled that got past the key check.
CachedCall == CallStep /\ cur'.use_cache /\ ~NoKey(cur')

\* A call of compute_financial_metrics with caching enabled, from an empty
\* cache in a directory that is there, or can be made, and can be written.
MetricsFromEmptyCache ==
    /\ CachedCall /\ cur'.fn = "compute_financial_metrics"
    /\ fs = <<>> /\ dir \in {"missing", "present"}

\* The call before the step (cur) and the call of the step (cur') both had
\* caching enabled and requested the same (symbol, endpoint) pair.
RequestedAgain ==
    /\ cur.fn # "none" /\ cur.use_cache
    /\ PairsOf(cur) \cap PairsOf(cur') # {}

\* C25 as stated: from an empty cache with writes succeeding one
\* compute_financial_metrics call requests each endpoint exactly once; and
\* with caching enabled no (symbol, endpoint) pair is requested more than
\* once, within a call or by two calls.
C25_AsStated ==
    [][/\ MetricsFromEmptyCache => OncePerEndpoint(cur')
       /\ CachedCall => NoRepeat(cur') /\ ~RequestedAgain]_vars

\* With caching enabled a pair is requested only when its file is missing or
\* unparseable; a request whose call had no failing write leaves the file
\* parseable; and a parseable file stays parseable.
RequestedOnlyOnMiss ==
    /\ CachedCall =>
          \A t \in Tickers, d \in DataTypes :
              Requested(cur', SymbolOf(t), d) =>
                  ~Parseable(fs, _get_cache_file(SymbolOf(t), d))
    /\ CallStep /\ ~cur'.wfail =>
          \A t \in Tickers, d \in DataTypes :
              Requested(cur', SymbolOf(t), d) =>
                  Parseable(fs', _get_cache_file(SymbolOf(t), d))
    /\ CallStep /\ cur'.use_cache =>
          \A p \in DOMAIN fs : Parseable(fs, p) => Parseable(fs', p)

\* C25: from an empty cache with writes succeeding one
\* compute_financial_metrics call requests each of the four endpoints exactly
\* once; and as long as the cache writes succeed, no (symbol, endpoint) pair
\* is requested twice with caching enabled, within a call or across calls.
C25_OneRequestPerPair ==
    [][/\ MetricsFromEmptyCache => OncePerEndpoint(cur')
       /\ RequestedOnlyOnMiss
       /\ CachedCall /\ ~cur'.wfail => NoRepeat(cur')
       /\ CachedCall /\ RequestedAgain => cur.wfail]_vars

\* The first call was compute_financial_metrics with caching enabled: four
\* requests, one per endpoint, and the four files written.
C25_Witness ==
    /\ calls = 1
    /\ cur.fn = "compute_financial_metrics" /\ cur.use_cache /\ ~cur.wfail
    /\ OncePerEndpoint(cur)
    /\ \A e \in DataTypes : Parseable(fs, _get_cache_file(cur.symbol, e))

\* The step is a fetch with caching disabled that returned.
UncachedFetch ==
    CallStep /\ cur'.fn \in Fetches /\ ~cur'.use_cache /\ cur'.raised = ""

\* The endpoints a fetch asks when it finds nothing in the cache.
AsksFor(fn) ==
    IF fn = "fetch_company_overview" THEN {"OVERVIEW", "INCOME_STATEMENT"}
    ELSE {"INCOME_STATEMENT", "BALANCE_SHEET", "CASH_FLOW"}

\* What the provider answers for the data type at the time of the step.
Answer(c, d) == Provider(FuncOf(d), c.symbol, version)

\* The call read no cache file, asked the provider for everything, and what
\* it returned is made of the provider's answers alone.
FromProviderOnly(c) ==
    /\ c.reads = <<>>
    /\ PairsOf(c) = {<<c.symbol, e>> : e \in AsksFor(c.fn)}
    /\ IF c.fn = "fetch_company_overview"
       THEN /\ NormalizedOverview(c.ret, Answer(c, "overview"))
            /\ c.ret.kv["RevCAGR5y"] =
                  compute_5yr_cagr_from_annuals(Answer(c, "income_statement"), "totalRevenue")
       ELSE \A d \in Statements :
               c.ret.kv[TtmKeyOf(d)] = build_ttm_from_statement(Answer(c, d))

\* After the step the files of the data types the call fetched hold what it
\* fetched: the statements as received, the overview as returned.
Overwritten(c) ==
    /\ \A d \in Statements :
          FuncOf(d) \in AsksFor(c.fn) =>
              /\ Parseable(fs', _get_cache_file(c.symbol, d))
              /\ WrittenDoc(c.symbol, d) = Answer(c, d)
    /\ c.fn = "fetch_company_overview" =>
          /\ Parseable(fs', _get_cache_file(c.symbol, "overview"))
          /\ WrittenDoc(c.symbol, "overview") = c.ret

\* The call of the step is the cached repetition of an uncached fetch.
CachedAfterUncached ==
    /\ CallStep
    /\ cur.fn \in Fetches /\ ~cur.use_cache /\ cur.raised = ""
    /\ cur'.fn = cur.fn /\ cur'.symbol = cur.symbol /\ cur'.use_cache /\ ~NoKey(cur')

ServesTheFetched == cur'.raised = "" /\ cur'.ret = cur.ret /\ cur'.reqs = <<>>

InitCorrupt ==
    /\ envKey = JNull /\ version = 0 /\ dir = "present"
    /\ \E t \in Tickers, d \in DataTypes :
          /\ fs = (_get_cache_file(SymbolOf(t), d) :> Garbage)
          /\ stmt = JText(SymbolOf(t))
          /\ field = d
    /\ cur = Idle /\ prev = Idle /\ calls = 0
    /\ out = Pending
    /\ DashboardIdle

SpecCorrupt == InitCorrupt /\ [][Next]_vars

\* The file of (symbol, data type) is there and is not JSON.
Corrupt(F, symbol, d) ==
    _get_cache_file(symbol, d) \in DOMAIN F /\ ~Parseable(F, _get_cache_file(symbol, d))

\* Call c looked the file of (symbol, data type) up in the cache.
LookedUp(c, symbol, d) ==
    \E i \in 1..Len(c.reads) : c.reads[i] = _get_cache_file(symbol, d)

\* What the file of a data type holds once the call has fetched it: the
\* payload, or for the overview the record the fetch builds from it.
Refreshed(c, d) ==
    /\ Parseable(fs', _get_cache_file(c.symbol, d))
    /\ IF d = "overview"
       THEN NormalizedOverview(WrittenDoc(c.symbol, d), Answer(c, d))
       ELSE WrittenDoc(c.symbol, d) = Answer(c, d)

\* A cached call that looks up a corrupt file raises nothing on its account,
\* requests the data, and leaves the file parseable with what it fetched.
CorruptIsMiss ==
    CachedCall =>
        \A d \in DataTypes :
            Corrupt(fs, cur'.symbol, d) /\ LookedUp(cur', cur'.symbol, d) =>
                /\ cur'.fn \in Fetches => cur'.raised = ""
                /\ cur'.raised \in {"", "TypeError"}
                /\ Requested(cur', cur'.symbol, d)
                /\ Refreshed(cur', d)

\* A cached call that looks up a parseable file does not request its data.
ParseableIsHit ==
    CachedCall =>
        \A d \in DataTypes :
            Parseable(fs, _get_cache_file(cur'.symbol, d)) /\ LookedUp(cur', cur'.symbol, d) =>
                ~Requested(cur', cur'.symbol, d)

----------------------------------------------------------------------------
(* Claims about the dashboard when the company metrics fail *)

\* The dashboard with a provider at any revision and a cache directory that
\* is missing or cannot be written to.
InitDashboard ==
    /\ fs = <<>> /\ dir \in {"missing", "readonly"} /\ envKey = JNull
    /\ version \in 0..MaxVersion
    /\ cur = Idle /\ prev = Idle /\ calls = 0
    /\ stmt = JNull /\ field = "" /\ out = Pending
    /\ \E total \in BOOLEAN, hole \in HoleFiles :
          files = Workbook(total, hole, "none", TRUE)
    /\ shared_list \in CallerLists
    /\ page = NoPage
    /\ procs = <<>>

SpecDashboard == InitDashboard /\ [][NextIndustry]_vars

\* The values of the industry record behind the industry column of each table.
IndustryValues(r) ==
    [df_market |-> <<r.market_size.marketsize, r.market_size.past_cagr_5y,
                     r.market_size.next_cagr_2y, r.market_size.next_cagr_5y>>,
     df_profit |-> <<r.profitability.gross_margin, r.profitability.ebit_margin,
                     r.profitability.net_margin, r.profitability.roc, r.profitability.roe>>,
     df_eff |-> <<r.efficiency.receivable_days, r.efficiency.inventory_days,
                  r.efficiency.payable_days>>,
     df_risk |-> <<r.risk.number_of_firms, r.risk.beta, r.risk.de, r.risk.cost_of_equity>>]

TableNames == {"df_market", "df_profit", "df_eff", "df_risk"}

\* Every industry cell of the page p shows the industry record's value, and
\* is empty only where the record has none.
IndustryColumnFilled(p, r) ==
    \A name \in TableNames :
       LET column == p.tables[name].industry
           values == IndustryValues(r)[name]
       IN /\ Len(column) = Len(values)
          /\ \A i \in DOMAIN column :
                IF values[i] = JNull THEN column[i] = JNull
                ELSE column[i] # JNull /\ column[i].of = values[i]

\* Every company cell of the page p is empty.
CompanyColumnEmpty(p) ==
    \A name \in TableNames :
       \A i \in DOMAIN p.tables[name].company : p.tables[name].company[i] = JNull

\* The dashboard has just run and its industry record was built.
IndustryShown == cur.fn = "app" /\ cur.ticker # <<>> /\ cur.raised = ""

\* compute_financial_metrics raised in the run of the dashboard.
MetricsFailed == IndustryShown /\ cur.metrics_raised # ""

\* C28: when the dashboard runs for a ticker whose industry record was
\* built and compute_financial_metrics raises, the page still shows the four
\* tables, with a warning, every industry cell showing the industry record's
\* value and every company cell empty; without a failure there is no
\* warning. When the input is empty after stripping, the start page is
\* shown, no spreadsheet is read and the cache is left as it was.
C28_MetricsFailureKeepsIndustry ==
    [][(IndustryShown' =>
           /\ page'.kind = "tables"
           /\ IndustryColumnFilled(page', page'.industry_info)
           /\ page'.warning <=> MetricsFailed'
           /\ MetricsFailed' => CompanyColumnEmpty(page'))
       /\ (cur'.fn = "app" /\ cur'.ticker = <<>> =>
              /\ page' = StartPage
              /\ cur'.loads = <<>> /\ cur'.reqs = <<>>
              /\ UNCHANGED <<fs, dir>>)]_vars

\* The dashboard ran for CD, whose metrics cannot be computed: the page has
\* the warning, the four tables with every industry cell filled, and no
\* company cell.
C28_Witness ==
    /\ Submitted(<<"C", "D">>)
    /\ MetricsFailed
    /\ page.kind = "tables"
    /\ page.warning
    /\ \A name \in TableNames :
          /\ \A i \in DOMAIN page.tables[name].industry :
                page.tables[name].industry[i] # JNull
          /\ \A i \in DOMAIN page.tables[name].company :
                page.tables[name].company[i] = JNull

====
